---- MODULE Spec2Model ----
(***************************************************************************)
(* Classroom timetable queries: ClassroomParser and ClassroomSearcher of   *)
(* classroom_parser.py, and the filename metadata / point query copies in  *)
(* batch_html_converter.py.                                                *)
(*                                                                         *)
(* A Python str is a sequence of Unicode code points, so that slicing,     *)
(* comparison (<, >=), strip() and the regular expressions are computed    *)
(* as CPython computes them.  An optional value (None or a value) is a     *)
(* sequence of length 0 or 1.                                              *)
(***************************************************************************)
EXTENDS Integers, Sequences, FiniteSets, TLC

VARIABLES fs, parser, available_files, converted_files, call, result

vars == <<fs, parser, available_files, converted_files, call, result>>

----------------------------------------------------------------------------
(* Bounds of the explored inputs.                                          *)

\* time-slot columns "09:00~", "09:30~", ... of a generated table
NumSlots == 3
\* duration_hours of a search ranges over 0..MaxDuration
MaxDuration == 2
\* leading zeros put before a room number or a capacity in a file name
MaxLeadingZeros == 1
\* blanks between the capacity label and its digits in a file name
MaxSpaces == 1
\* the most rows of a table whose date cells range over every kind
MaxRows == 3
\* the exploration makes no further conversion once converted_files holds
\* more than this many paths (the program sets no limit)
MaxConverted == 3
\* the lengths in bytes explored for a file that is written (one, which is
\* halfway between two tenths of a KB), and the length of every file the
\* explored directories start with
WrittenSizes == {6 * 1024 + 256}
FixtureSize == 5 * 1024

----------------------------------------------------------------------------
(* Python values.                                                          *)

None == <<>>
Some(x) == <<x>>
IsNone(o) == o = <<>>
Get(o) == o[1]

\* literals of the source, as code points
S_GWAN == <<44288>>                                       \* "관"
S_CAPACITY_LABEL == <<49688, 50857, 51064, 50896>>        \* "수용인원"
S_CAPACITY_UNIT == <<47749>>                              \* "명"
S_FREE == <<49324, 50857, 32, 44032, 45733>>              \* "사용 가능"
S_BUSY_OPEN == <<49324, 50857, 51473, 32, 40>>            \* "사용중 ("
S_BUSY_CLOSE == <<41>>                                    \* ")"
S_DATE_COLUMN == <<49324, 50857, 51068, 51088>>           \* "사용일자"
S_DOW_COLUMN == <<50836, 51068>>                          \* "요일"
S_CONVERTED_XLSX == <<95, 99, 111, 110, 118, 101, 114, 116, 101, 100, 46, 120, 108, 115, 120>> \* "_converted.xlsx"
S_XLSX == <<46, 120, 108, 115, 120>>                      \* ".xlsx"
S_XLS == <<46, 120, 108, 115>>                            \* ".xls"
S_XLS_CAPS == <<46, 88, 76, 83>>                          \* ".XLS"
S_HTML == "html"                                          \* the first bytes are '<html'
S_TILDE == <<126>>                                        \* "~"
S_SEP == <<47>>                                           \* "/"
S_DATA == <<100, 97, 116, 97>>                            \* "data"
S_UNKNOWN == <<85, 110, 107, 110, 111, 119, 110>>         \* "Unknown"
S_SUMMARY_NAME == <<99, 111, 110, 118, 101, 114, 115, 105, 111, 110, 95, 115, 117, 109, 109, 97, 114, 121, 46, 120, 108, 115, 120>>  \* "conversion_summary.xlsx"
S_COL_FILE_NAME == <<54028, 51068, 47749>>  \* "파일명"
S_COL_BUILDING == <<44148, 47932>>  \* "건물"
S_COL_ROOM == <<54840, 49892>>  \* "호실"
S_COL_FLOOR == <<52789>>  \* "층"
S_COL_CAPACITY == <<49688, 50857, 51064, 50896>>  \* "수용인원"
S_COL_SIZE_KB == <<54028, 51068, 53356, 44592, 40, 75, 66, 41>>  \* "파일크기(KB)"
S_COL_FILE_PATH == <<54028, 51068, 44221, 47196>>  \* "파일경로"

\* [가-힣]
IsHangul(c) == c \in 44032..55203
\* the code point of the digit zero of every decimal-digit block (Unicode
\* category Nd, Unicode 14.0 as in CPython 3.11); a block is the ten code
\* points from its zero, in the order of their values
DecimalZeros ==
    {48, 1632, 1776, 1984, 2406, 2534, 2662, 2790, 2918, 3046, 3174, 3302, 3430,
     3558, 3664, 3792, 3872, 4160, 4240, 6112, 6160, 6470, 6608, 6784, 6800, 6992,
     7088, 7232, 7248, 42528, 43216, 43264, 43472, 43504, 43600, 44016, 65296,
     66720, 68912, 69734, 69872, 69942, 70096, 70384, 70736, 70864, 71248, 71360,
     71472, 71904, 72016, 72784, 73040, 73120, 92768, 92864, 93008, 120782,
     120792, 120802, 120812, 120822, 123200, 123632, 125264, 130032}
\* \d of a str pattern: any decimal digit, the ASCII ones and those of the
\* other scripts
IsDigit(c) ==
    IF c < 128 THEN c \in 48..57 ELSE \E z \in DecimalZeros : c \in z..(z + 9)
\* the value 0..9 of a decimal digit
DigitValue(c) ==
    IF c < 128 THEN c - 48 ELSE c - (CHOOSE z \in DecimalZeros : c \in z..(z + 9))
\* \s and the characters str.strip() removes
IsSpace(c) == c \in ((9..13) \cup (28..32) \cup {133, 160, 5760, 8232, 8233, 8239, 8287, 12288} \cup (8192..8202))

\* s.startswith(p, at i) : p occurs in s at index i
OccursAt(s, p, i) ==
    /\ i >= 1
    /\ i + Len(p) - 1 <= Len(s)
    /\ \A k \in 1..Len(p) : s[i + k - 1] = p[k]

\* s.endswith(p)
EndsWith(s, p) == Len(p) <= Len(s) /\ OccursAt(s, p, Len(s) - Len(p) + 1)

\* p in s
Contains(s, p) == \E i \in 1..(Len(s) + 1) : OccursAt(s, p, i)

\* index of the last character of the longest run of P-characters of s that
\* starts at index i (i - 1 when s[i] is no P-character)
RunEnd(s, i, P(_)) ==
    CHOOSE k \in (i - 1)..Len(s) :
        /\ \A j \in i..k : P(s[j])
        /\ k = Len(s) \/ ~P(s[k + 1])

\* a < b for Python strings: code point order, a proper prefix is smaller
RECURSIVE StrLess(_, _)
StrLess(a, b) ==
    IF b = <<>> THEN FALSE
    ELSE IF a = <<>> THEN TRUE
    ELSE IF Head(a) # Head(b) THEN Head(a) < Head(b)
    ELSE StrLess(Tail(a), Tail(b))

StrGeq(a, b) == ~StrLess(a, b)

\* the value of a run of decimal digits, digit by digit
RECURSIVE ValueOfDigits(_)
ValueOfDigits(s) ==
    IF s = <<>> THEN 0
    ELSE 10 * ValueOfDigits(SubSeq(s, 1, Len(s) - 1)) + DigitValue(s[Len(s)])

\* int(s) for a run of decimal digits: the value of the digits from the
\* first that is no zero on.  (A run in a file name is shorter than the
\* limit int() sets on the digits of a str.)
IntOfDigits(s) ==
    LET nz == {i \in 1..Len(s) : DigitValue(s[i]) # 0}
    IN IF nz = {} THEN 0
       ELSE ValueOfDigits(SubSeq(s, CHOOSE i \in nz : \A j \in nz : i <= j, Len(s)))

\* str(n) for an int n >= 0
RECURSIVE StrOfNat(_)
StrOfNat(n) ==
    IF n < 10 THEN <<48 + n>>
    ELSE StrOfNat(n \div 10) \o <<48 + (n % 10)>>

\* s.strip()
Strip(s) ==
    IF \A i \in 1..Len(s) : IsSpace(s[i]) THEN <<>>
    ELSE LET a == CHOOSE i \in 1..Len(s) : ~IsSpace(s[i]) /\ \A j \in 1..(i - 1) : IsSpace(s[j])
             b == CHOOSE i \in 1..Len(s) : ~IsSpace(s[i]) /\ \A j \in (i + 1)..Len(s) : IsSpace(s[j])
         IN SubSeq(s, a, b)

\* s.replace(old, "") for a one-character old
RemoveChar(s, c) == SelectSeq(s, LAMBDA x : x # c)

\* s.lower() on the ASCII letters
Lower(s) == [i \in 1..Len(s) |-> IF s[i] \in 65..90 THEN s[i] + 32 ELSE s[i]]

----------------------------------------------------------------------------
(* os.path                                                                 *)

\* os.path.join(a, b)
PathJoin(a, b) ==
    IF b # <<>> /\ b[1] = S_SEP[1] THEN b
    ELSE IF a = <<>> \/ a[Len(a)] = S_SEP[1] THEN a \o b
    ELSE a \o S_SEP \o b

\* os.path.basename(p)
Basename(p) ==
    LET seps == {i \in 1..Len(p) : p[i] = S_SEP[1]}
    IN IF seps = {} THEN p
       ELSE SubSeq(p, (CHOOSE i \in seps : \A j \in seps : j <= i) + 1, Len(p))

\* os.path.splitext(p): <<root, ext>>; ext starts at the last dot of the
\* basename, unless that dot only leads the basename
SplitExt(p) ==
    LET base0 == Len(p) - Len(Basename(p))
        dots == {i \in (base0 + 1)..Len(p) : p[i] = 46}
        last == CHOOSE i \in dots : \A j \in dots : j <= i
    IN IF dots = {} \/ \A j \in (base0 + 1)..last : p[j] = 46
       THEN <<p, <<>>>>
       ELSE <<SubSeq(p, 1, last - 1), SubSeq(p, last, Len(p))>>

----------------------------------------------------------------------------
(* The three regular expressions applied to a file name.                   *)

\* variant: the match ends at the first "관" of the leading Hangul run
BuildingMatchFirstGwan(s) ==
    LET run == RunEnd(s, 1, IsHangul)
        ends == {k \in 2..run : s[k] = S_GWAN[1]}
    IN IF ends = {} THEN None
       ELSE Some(SubSeq(s, 1, CHOOSE k \in ends : \A j \in ends : k <= j))

\* re.search(r'^([가-힣]+관)', s): group 1 or None.  The greedy run takes
\* every leading Hangul syllable and backs off to the last "관" in it that
\* has a syllable before it.
BuildingMatch(s) ==
    LET run == RunEnd(s, 1, IsHangul)
        ends == {k \in 2..run : s[k] = S_GWAN[1]}
    IN IF ends = {} THEN None
       ELSE Some(SubSeq(s, 1, CHOOSE k \in ends : \A j \in ends : j <= k))

\* re.search(r'관(\d+)', s): group 1 or None, at the leftmost "관" that a
\* digit follows
RoomMatch(s) ==
    LET at == {i \in 1..(Len(s) - 1) : s[i] = S_GWAN[1] /\ IsDigit(s[i + 1])}
        i == CHOOSE k \in at : \A j \in at : k <= j
    IN IF at = {} THEN None
       ELSE Some(SubSeq(s, i + 1, RunEnd(s, i + 1, IsDigit)))

\* the match of r'수용인원\s*(\d+)명' that starts at index i: the end of the
\* digit run, or 0
CapacityMatchAt(s, i) ==
    IF ~OccursAt(s, S_CAPACITY_LABEL, i) THEN 0
    ELSE LET d == RunEnd(s, i + Len(S_CAPACITY_LABEL), IsSpace) + 1
             e == RunEnd(s, d, IsDigit)
         IN IF e >= d /\ OccursAt(s, S_CAPACITY_UNIT, e + 1) THEN e ELSE 0

\* re.search(r'수용인원\s*(\d+)명', s): group 1 or None
CapacityMatch(s) ==
    LET at == {i \in 1..Len(s) : CapacityMatchAt(s, i) > 0}
        i == CHOOSE k \in at : \A j \in at : k <= j
    IN IF at = {} THEN None
       ELSE Some(SubSeq(s, RunEnd(s, i + Len(S_CAPACITY_LABEL), IsSpace) + 1, CapacityMatchAt(s, i)))

----------------------------------------------------------------------------
(* Cell values of a DataFrame and query arguments: NaN, an int, a str or a  *)
(* float of one decimal.                                                   *)

NaN == [t |-> "nan", n |-> 0, s |-> <<>>]
PyInt(i) == [t |-> "int", n |-> i, s |-> <<>>]
PyStr(x) == [t |-> "str", n |-> 0, s |-> x]
\* a float of one decimal, n its number of tenths (n >= 0)
PyFloat(tenths) == [t |-> "float", n |-> tenths, s |-> <<>>]

\* pd.isna(v)
IsNa(v) == v.t = "nan"

\* str(v)
Str(v) ==
    IF v.t = "str" THEN v.s
    ELSE IF v.t = "int" THEN (IF v.n < 0 THEN <<45>> \o StrOfNat(-v.n) ELSE StrOfNat(v.n))
    ELSE IF v.t = "float" THEN StrOfNat(v.n \div 10) \o <<46>> \o StrOfNat(v.n % 10)
    ELSE <<110, 97, 110>>

\* the blanks int() skips around the literal: those of str.strip() but
\* the separators 28..31
IsIntSpace(c) == IsSpace(c) /\ c \notin 28..31

\* the decimal literal int() accepts after the sign: digits of any script,
\* with single underscores between digits only
IsIntLiteral(d) ==
    /\ d # <<>>
    /\ IsDigit(d[1]) /\ IsDigit(d[Len(d)])
    /\ \A i \in 1..Len(d) : IsDigit(d[i]) \/ d[i] = 95
    /\ \A i \in 1..(Len(d) - 1) : ~(d[i] = 95 /\ d[i + 1] = 95)

\* sys.get_int_max_str_digits(): int() raises ValueError for a literal of
\* more digits (underscores not counted)
MaxStrDigits == 4300

\* int(s) of a str: Some(n), or None for ValueError.  Surrounding blanks
\* are skipped, then come an optional sign and a decimal literal of at most
\* MaxStrDigits digits.
IntOfStr(s) ==
    LET blank == \A i \in 1..Len(s) : IsIntSpace(s[i])
        a == CHOOSE i \in 1..Len(s) : ~IsIntSpace(s[i]) /\ \A j \in 1..(i - 1) : IsIntSpace(s[j])
        z == CHOOSE i \in 1..Len(s) : ~IsIntSpace(s[i]) /\ \A j \in (i + 1)..Len(s) : IsIntSpace(s[j])
        b == IF blank THEN <<>> ELSE SubSeq(s, a, z)
        signed == b # <<>> /\ b[1] \in {43, 45}
        d == IF signed THEN Tail(b) ELSE b
    IN IF ~IsIntLiteral(d) THEN None
       ELSE IF Cardinality({i \in 1..Len(d) : d[i] # 95}) > MaxStrDigits THEN None
       ELSE Some(IF signed /\ b[1] = 45 THEN -IntOfDigits(RemoveChar(d, 95))
                 ELSE IntOfDigits(RemoveChar(d, 95)))

\* the outcome of a call: the value it returns, or the exception that
\* leaves it uncaught
Return(v) == [ok |-> TRUE, value |-> v]
Raise(e) == [ok |-> FALSE, exc |-> e]

----------------------------------------------------------------------------
(* The file system: the files of the data directory in os.listdir order.   *)
(* A file is [name, format, df]: format is what the bytes really are       *)
(* ("xlsx", "xls" or "html"), df the table a reader of that format yields. *)

\* the index in fs of the file at path, or 0
FileAt(files, path) ==
    LET at == {i \in 1..Len(files) : PathJoin(S_DATA, files[i].name) = path}
    IN IF at = {} THEN 0 ELSE CHOOSE i \in at : TRUE

\* pd.read_excel(path, engine=...): Some(df), or None when it raises.
\* openpyxl reads only xlsx bytes, xlrd only xls bytes; without an engine
\* pandas picks the reader from the bytes.
ReadExcel(files, path, engine) ==
    LET i == FileAt(files, path)
    IN IF i = 0 THEN None
       ELSE IF engine = "openpyxl" /\ files[i].format # "xlsx" THEN None
       ELSE IF engine = "xlrd" /\ files[i].format # "xls" THEN None
       ELSE IF files[i].format \notin {"xlsx", "xls"} THEN None
       ELSE Some(files[i].df)

\* the position of the column named name in df, or 0 (name in df.columns)
ColumnIndex(df, name) ==
    LET at == {i \in 1..Len(df.columns) : df.columns[i] = PyStr(name)}
    IN IF at = {} THEN 0 ELSE CHOOSE i \in at : \A j \in at : i <= j

\* a == b of two values: numbers are equal by their value, an int and a
\* float too; strs when they are the same; NaN equals nothing
PyEq(a, b) ==
    IF a.t = "int" /\ b.t = "int" THEN a.n = b.n
    ELSE IF a.t = "float" /\ b.t = "float" THEN a.n = b.n
    ELSE IF a.t = "int" /\ b.t = "float" THEN 10 * a.n = b.n
    ELSE IF a.t = "float" /\ b.t = "int" THEN a.n = 10 * b.n
    ELSE a.t = "str" /\ b.t = "str" /\ a.s = b.s

\* df[df['사용일자'] == date]: the rows whose date cell equals date
RowsOfDate(df, date) ==
    LET c == ColumnIndex(df, S_DATE_COLUMN)
    IN SelectSeq(df.rows, LAMBDA r : PyEq(r[c], date))

----------------------------------------------------------------------------
(* ClassroomParser                                                         *)

\* re.match(r'\d{2}:\d{2}~', col) for a column header; a header that is
\* no str is skipped by the isinstance test
IsTimeColumn(col) ==
    /\ col.t = "str"
    /\ Len(col.s) >= 6
    /\ IsDigit(col.s[1]) /\ IsDigit(col.s[2])
    /\ col.s[3] = 58
    /\ IsDigit(col.s[4]) /\ IsDigit(col.s[5])
    /\ col.s[6] = S_TILDE[1]

\* list.sort() of strings (stable insertion into ascending order)
RECURSIVE InsertSorted(_, _)
InsertSorted(sorted, x) ==
    IF sorted = <<>> THEN <<x>>
    ELSE IF StrLess(x, Head(sorted)) THEN <<x>> \o sorted
    ELSE <<Head(sorted)>> \o InsertSorted(Tail(sorted), x)

RECURSIVE SortStrings(_)
SortStrings(xs) ==
    IF xs = <<>> THEN <<>>
    ELSE InsertSorted(SortStrings(SubSeq(xs, 1, Len(xs) - 1)), xs[Len(xs)])

\* variant: the slot headers are kept in the order of the table
ExtractTimeColumnsUnsorted(df) ==
    LET hit == SelectSeq(df.columns, IsTimeColumn)
    IN [i \in 1..Len(hit) |-> hit[i].s]

\* _extract_time_columns: the headers that are time slots, sorted
ExtractTimeColumns(df) ==
    LET hit == SelectSeq(df.columns, IsTimeColumn)
    IN SortStrings([i \in 1..Len(hit) |-> hit[i].s])

\* the fields _extract_basic_info assigns, from the three matches.  floor
\* is assigned only under "if self.room_number", and keeps the None of
\* __init__ otherwise.
BasicInfo(building_match, room_match, capacity_match) ==
    [building |-> building_match,
     room_number |-> room_match,
     capacity |-> IF IsNone(capacity_match) THEN None
                  ELSE Some(IntOfDigits(Get(capacity_match))),
     floor |-> IF IsNone(room_match) THEN None
               ELSE Some(IntOfDigits(Get(room_match)) \div 100)]

\* _extract_basic_info: the fields read off the base name of the path
ExtractBasicInfo(file_path) ==
    BasicInfo(BuildingMatch(Basename(file_path)),
              RoomMatch(Basename(file_path)),
              CapacityMatch(Basename(file_path)))

\* the engine _load_and_parse picks from the lower-cased extension
EngineFor(file_path) ==
    IF Lower(SplitExt(file_path)[2]) = S_XLSX THEN "openpyxl"
    ELSE IF Lower(SplitExt(file_path)[2]) = S_XLS THEN "xlrd"
    ELSE "auto"

\* the object __init__ leaves, given what read_excel returned (df) and what
\* _extract_basic_info would assign (info).  When the read raises, the
\* except clause leaves df None and nothing was extracted.
ParserAfterLoad(file_path, df, info) ==
    IF IsNone(df)
    THEN [cls |-> "ClassroomParser", file_path |-> file_path,
          building |-> None, room_number |-> None, capacity |-> None,
          floor |-> None, time_columns |-> <<>>, df |-> None]
    ELSE [cls |-> "ClassroomParser", file_path |-> file_path,
          building |-> info.building, room_number |-> info.room_number,
          capacity |-> info.capacity, floor |-> info.floor,
          time_columns |-> ExtractTimeColumns(Get(df)), df |-> df]

\* ClassroomParser.__init__ with _load_and_parse
LoadAndParse(files, file_path) ==
    ParserAfterLoad(file_path,
                    ReadExcel(files, file_path, EngineFor(file_path)),
                    ExtractBasicInfo(file_path))

\* the test "pd.isna(usage_info) or str(usage_info).strip() in ['', ' ']"
IsFreeCell(usage_info) ==
    IsNa(usage_info) \/ Strip(Str(usage_info)) \in {<<>>, <<32>>}

\* variant: the label of an occupied slot is the trimmed cell
StatusTextStripped(usage_info) ==
    IF IsFreeCell(usage_info) THEN S_FREE
    ELSE S_BUSY_OPEN \o Strip(Str(usage_info)) \o S_BUSY_CLOSE

\* '사용 가능', or f'사용중 ({usage_info})'
StatusText(usage_info) ==
    IF IsFreeCell(usage_info) THEN S_FREE
    ELSE S_BUSY_OPEN \o Str(usage_info) \o S_BUSY_CLOSE

\* the date argument after "if isinstance(date, str): date = int(date)":
\* Some(value), the int of a str and any other value as it is, or None for
\* the ValueError branch
CoerceDate(date) ==
    IF date.t # "str" THEN Some(date)
    ELSE IF IsNone(IntOfStr(date.s)) THEN None
    ELSE Some(PyInt(Get(IntOfStr(date.s))))

\* date_data['요일'].iloc[0] if '요일' in date_data.columns else None
DayOfWeek(df, date_data) ==
    IF ColumnIndex(df, S_DOW_COLUMN) = 0 THEN None
    ELSE Some(date_data[1][ColumnIndex(df, S_DOW_COLUMN)])

\* variant: the cell of the last row of the date
FirstCellOfLastRow(df, date_data, time_col) == date_data[Len(date_data)][ColumnIndex(df, time_col)]

\* date_data[time_col].iloc[0]
FirstCell(df, date_data, time_col) == date_data[1][ColumnIndex(df, time_col)]

\* time_col in self.time_columns
IsSlot(time_columns, time_col) ==
    \E i \in 1..Len(time_columns) : time_columns[i] = time_col

\* the success dict of get_room_status_at_time
StatusResult(usage_info, d, time, day_of_week) ==
    Return([status |-> "success",
            is_available |-> IsFreeCell(usage_info),
            usage_info |-> StatusText(usage_info),
            date |-> d,
            time |-> time,
            day_of_week |-> day_of_week])

\* variant: the time is checked before the date
StatusInRowsTimeFirst(df, time_columns, date_data, d, time) ==
    IF ~IsSlot(time_columns, time \o S_TILDE)
    THEN Return([status |-> "invalid_time", message |-> <<"invalid_time", time>>])
    ELSE IF date_data = <<>>
    THEN Return([status |-> "no_data", message |-> <<"no_data", d>>])
    ELSE StatusResult(FirstCell(df, date_data, time \o S_TILDE), d, time,
                      DayOfWeek(df, date_data))

\* get_room_status_at_time from the row selection on
StatusInRows(df, time_columns, date_data, d, time) ==
    IF date_data = <<>>
    THEN Return([status |-> "no_data", message |-> <<"no_data", d>>])
    ELSE IF ~IsSlot(time_columns, time \o S_TILDE)
    THEN Return([status |-> "invalid_time", message |-> <<"invalid_time", time>>])
    ELSE StatusResult(FirstCell(df, date_data, time \o S_TILDE), d, time,
                      DayOfWeek(df, date_data))

\* get_room_status_at_time from the date conversion on; d is CoerceDate(date).
\* df['사용일자'] raises KeyError when the table has no such column.
StatusInTable(df, time_columns, d, time) ==
    IF IsNone(d) THEN Return([status |-> "error", message |-> <<"date_format">>])
    ELSE IF ColumnIndex(df, S_DATE_COLUMN) = 0 THEN Raise("KeyError")
    ELSE StatusInRows(df, time_columns, RowsOfDate(df, Get(d)), Get(d), time)

\* ClassroomParser.get_room_status_at_time
GetRoomStatusAtTime(p, date, time) ==
    IF IsNone(p.df) THEN Return([status |-> "error", message |-> <<"load">>])
    ELSE StatusInTable(Get(p.df), p.time_columns, CoerceDate(date), time)

\* the loop of get_available_times_from over time_columns[i..]
RECURSIVE AvailableLoop(_, _, _, _, _, _)
AvailableLoop(df, date_data, cols, i, start_time, start_found) ==
    IF i > Len(cols) THEN <<>>
    ELSE IF ~(start_found \/ StrGeq(RemoveChar(cols[i], S_TILDE[1]), start_time))
    THEN AvailableLoop(df, date_data, cols, i + 1, start_time, FALSE)
    ELSE <<<<RemoveChar(cols[i], S_TILDE[1]), StatusText(FirstCell(df, date_data, cols[i]))>>>>
         \o AvailableLoop(df, date_data, cols, i + 1, start_time, TRUE)

\* get_available_times_from from the row selection on
AvailableInRows(df, time_columns, date_data, start_time) ==
    IF date_data = <<>> THEN Return(<<>>)
    ELSE Return(AvailableLoop(df, date_data, time_columns, 1, start_time, FALSE))

\* get_available_times_from from the date conversion on
AvailableInTable(df, time_columns, d, start_time) ==
    IF IsNone(d) THEN Return(<<>>)
    ELSE IF ColumnIndex(df, S_DATE_COLUMN) = 0 THEN Raise("KeyError")
    ELSE AvailableInRows(df, time_columns, RowsOfDate(df, Get(d)), start_time)

\* ClassroomParser.get_available_times_from: a list of (time, status)
GetAvailableTimesFrom(p, date, start_time) ==
    IF IsNone(p.df) THEN Return(<<>>)
    ELSE AvailableInTable(Get(p.df), p.time_columns, CoerceDate(date), start_time)

\* get_full_schedule_for_date from the row selection on; the schedule dict
\* is the list of its (key, value) pairs in insertion order
ScheduleInRows(p, df, date_data, d) ==
    IF date_data = <<>> THEN Return([error |-> <<"no_data", d>>])
    ELSE Return([date |-> d,
                 day_of_week |-> DayOfWeek(df, date_data),
                 building |-> p.building,
                 room |-> p.room_number,
                 floor |-> p.floor,
                 capacity |-> p.capacity,
                 schedule |-> [i \in 1..Len(p.time_columns) |->
                     <<p.time_columns[i],
                       StatusText(FirstCell(df, date_data, p.time_columns[i]))>>]])

\* get_full_schedule_for_date from the date conversion on
ScheduleInTable(p, df, d) ==
    IF IsNone(d) THEN Return([error |-> <<"date_format">>])
    ELSE IF ColumnIndex(df, S_DATE_COLUMN) = 0 THEN Raise("KeyError")
    ELSE ScheduleInRows(p, df, RowsOfDate(df, Get(d)), Get(d))

\* ClassroomParser.get_full_schedule_for_date
GetFullScheduleForDate(p, date) ==
    IF IsNone(p.df) THEN Return([error |-> <<"load">>])
    ELSE ScheduleInTable(p, Get(p.df), CoerceDate(date))

\* Series.dropna().unique(): the values that are not NaN, each once (the
\* first of those that are equal), in the order of their first row
RECURSIVE Unique(_)
Unique(xs) ==
    IF xs = <<>> THEN <<>>
    ELSE LET rest == Unique(SubSeq(xs, 1, Len(xs) - 1))
             x == xs[Len(xs)]
         IN IF IsNa(x) \/ \E i \in 1..Len(rest) : PyEq(rest[i], x) THEN rest
            ELSE Append(rest, x)

\* int(date) of a cell: Some(int), or None when int() raises ValueError; a
\* float is cut to its whole part
IntOfCell(v) ==
    IF v.t = "int" THEN Some(v.n)
    ELSE IF v.t = "float" THEN Some(v.n \div 10)
    ELSE IF v.t = "str" THEN IntOfStr(v.s)
    ELSE None

\* sorted(...) of a list of ints
RECURSIVE InsertSortedInt(_, _)
InsertSortedInt(sorted, x) ==
    IF sorted = <<>> THEN <<x>>
    ELSE IF x < Head(sorted) THEN <<x>> \o sorted
    ELSE <<Head(sorted)>> \o InsertSortedInt(Tail(sorted), x)

RECURSIVE SortInts(_)
SortInts(xs) ==
    IF xs = <<>> THEN <<>>
    ELSE InsertSortedInt(SortInts(SubSeq(xs, 1, Len(xs) - 1)), xs[Len(xs)])

\* the list comprehension and sort of get_available_dates over the unique
\* values: int() of any of them raising ends the call
AvailableDatesOf(dates) ==
    IF \E i \in 1..Len(dates) : IsNone(IntOfCell(dates[i])) THEN Raise("ValueError")
    ELSE Return(SortInts([i \in 1..Len(dates) |-> Get(IntOfCell(dates[i]))]))

\* get_available_dates on a loaded table
AvailableDatesInTable(df, c) ==
    IF c = 0 THEN Raise("KeyError")
    ELSE AvailableDatesOf(Unique([r \in 1..Len(df.rows) |-> df.rows[r][c]]))

\* ClassroomParser.get_available_dates
GetAvailableDates(p) ==
    IF IsNone(p.df) THEN Return(<<>>)
    ELSE AvailableDatesInTable(Get(p.df), ColumnIndex(Get(p.df), S_DATE_COLUMN))

----------------------------------------------------------------------------
(* HTMLToExcelConverter (batch_html_converter.py).  A file of format       *)
(* "html" starts with '<html'; its df is the first table pd.read_html      *)
(* finds in it, the table without columns when it holds no table at all.   *)

NoTable == [columns |-> <<>>, rows |-> <<>>]

\* find_html_files: the paths of the files named *.XLS or *.xls whose first
\* bytes are '<html', in os.listdir order
FindHtmlFiles(files) ==
    LET hit == SelectSeq(files, LAMBDA f : /\ EndsWith(f.name, S_XLS_CAPS) \/ EndsWith(f.name, S_XLS)
                                           /\ f.format = S_HTML)
    IN [i \in 1..Len(hit) |-> PathJoin(S_DATA, hit[i].name)]

\* pd.read_html(path, header=0)[0]: Some(df), or None when it raises
\* (ValueError: no tables found, or the file cannot be read as HTML)
ReadHtml(files, path) ==
    LET i == FileAt(files, path)
    IN IF i = 0 THEN None
       ELSE IF files[i].format # "html" \/ files[i].df = NoTable THEN None
       ELSE Some(files[i].df)

\* f"{os.path.splitext(html_file_path)[0]}_converted.xlsx"
OutputPath(html_file_path) == SplitExt(html_file_path)[1] \o S_CONVERTED_XLSX

\* what a write leaves to the file system and the writer library: place,
\* the number of entries os.listdir gives before a file that is new (the
\* order of the listing is arbitrary), and size, the length in bytes of the
\* file written
Writes(n) == [place : 0..n, size : WrittenSizes]

\* the choices open to a write of path: a place among the entries when the
\* file is new, none when it is there already
WritesOf(files, path) == Writes(IF FileAt(files, path) = 0 THEN Len(files) ELSE 0)

\* the output paths that the conversions of html_files before the i-th add
\* to the listing
NewOutputs(files, html_files, i) ==
    {OutputPath(html_files[j]) : j \in {k \in 1..(i - 1) :
        /\ ~IsNone(ReadHtml(files, html_files[k]))
        /\ FileAt(files, OutputPath(html_files[k])) = 0}}

\* the choices open to the writes of a batch, one for each file of
\* html_files: a place among the entries there are by then when the write
\* adds a file, none when it does not
BatchWrites(files, html_files) ==
    {w \in [1..Len(html_files) -> Writes(Len(files) + Len(html_files) - 1)] :
        \A i \in 1..Len(html_files) :
            w[i].place <= (IF /\ ~IsNone(ReadHtml(files, html_files[i]))
                              /\ FileAt(files, OutputPath(html_files[i])) = 0
                              /\ OutputPath(html_files[i]) \notin NewOutputs(files, html_files, i)
                           THEN Len(files) + Cardinality(NewOutputs(files, html_files, i))
                           ELSE 0)}

\* the listing with the new entry f after k of the entries there were (after
\* all of them when there are fewer than k)
InsertAt(files, k, f) ==
    LET j == IF k > Len(files) THEN Len(files) ELSE k
    IN SubSeq(files, 1, j) \o <<f>> \o SubSeq(files, j + 1, Len(files))

\* df.to_excel(path): the file is written anew, listed at the place at
\* gives, or over the file of that path, which keeps its place
WriteExcel(files, path, df, at) ==
    LET i == FileAt(files, path)
        written == [name |-> Basename(path), format |-> "xlsx", df |-> df, size |-> at.size]
    IN IF i = 0 THEN InsertAt(files, at.place, written) ELSE [files EXCEPT ![i] = written]

\* convert_single_file on the state st = [fs, converted_files]: the state
\* after it and the value returned (None after a caught exception)
ConvertSingleFile(st, html_file_path, tables, at) ==
    IF IsNone(tables) THEN [st |-> st, result |-> None]
    ELSE [st |-> [fs |-> WriteExcel(st.fs, OutputPath(html_file_path), Get(tables), at),
                  converted_files |-> Append(st.converted_files, OutputPath(html_file_path))],
          result |-> Some(OutputPath(html_file_path))]

\* one turn of the loop of convert_all_files on the run
\* [st, attempted, converted_count, failed_count]
ConvertStep(run, html_file, done) ==
    [st |-> done.st,
     attempted |-> Append(run.attempted, html_file),
     converted_count |-> run.converted_count + (IF IsNone(done.result) THEN 0 ELSE 1),
     failed_count |-> run.failed_count + (IF IsNone(done.result) THEN 1 ELSE 0)]

\* variant: the batch ends at the first file that fails
RECURSIVE ConvertLoopStopAtFailure(_, _, _, _)
ConvertLoopStopAtFailure(run, html_files, writes, i) ==
    IF i > Len(html_files) THEN run
    ELSE LET done == ConvertSingleFile(run.st, html_files[i], ReadHtml(run.st.fs, html_files[i]),
                                       writes[i])
         IN IF IsNone(done.result) THEN ConvertStep(run, html_files[i], done)
            ELSE ConvertLoopStopAtFailure(ConvertStep(run, html_files[i], done), html_files,
                                          writes, i + 1)

\* the loop of convert_all_files from the i-th discovered file on; writes[i]
\* is what the write of the i-th file leaves open
RECURSIVE ConvertLoop(_, _, _, _)
ConvertLoop(run, html_files, writes, i) ==
    IF i > Len(html_files) THEN run
    ELSE ConvertLoop(ConvertStep(run, html_files[i],
                         ConvertSingleFile(run.st, html_files[i],
                                           ReadHtml(run.st.fs, html_files[i]), writes[i])),
                     html_files, writes, i + 1)

\* convert_all_files: the run and the value returned ([] when no HTML file
\* is found, else the list converted_files itself)
ConvertAllFiles(files, converted, html_files, writes) ==
    LET run == ConvertLoop([st |-> [fs |-> files, converted_files |-> converted],
                            attempted |-> <<>>, converted_count |-> 0, failed_count |-> 0],
                           html_files, writes, 1)
    IN [run |-> run,
        result |-> IF html_files = <<>> THEN Return(<<>>) ELSE Return(run.st.converted_files)]

\* round(file_size / 1024, 1) in tenths: the nearest tenth, the even one of
\* two that are equally near
RoundKB(file_size) ==
    LET q == (file_size * 10) \div 1024
        r == (file_size * 10) % 1024
    IN IF r > 512 \/ (r = 512 /\ q % 2 = 1) THEN q + 1 ELSE q

\* the values of one row of the summary, from the matches on the file name
\* and the size os.path.getsize gives
SummaryFields(file_path, building_match, room, capacity_match, file_size) ==
    [file_name |-> Basename(file_path),
     building |-> IF IsNone(building_match) THEN S_UNKNOWN ELSE Get(building_match),
     room |-> room,
     floor |-> IF room # <<>> /\ \A i \in 1..Len(room) : IsDigit(room[i])
               THEN IntOfDigits(room) \div 100 ELSE 0,
     capacity |-> IF IsNone(capacity_match) THEN 0 ELSE IntOfDigits(Get(capacity_match)),
     size_kb |-> RoundKB(file_size),
     file_path |-> file_path]

\* room_match.group(1) if room_match else "Unknown"
GroupOrUnknown(room_match) == IF IsNone(room_match) THEN S_UNKNOWN ELSE Get(room_match)

\* the dict appended to summary_data for a converted file that exists
SummaryRow(files, file_path) ==
    SummaryFields(file_path,
                  BuildingMatch(Basename(file_path)),
                  GroupOrUnknown(RoomMatch(Basename(file_path))),
                  CapacityMatch(Basename(file_path)),
                  files[FileAt(files, file_path)].size)

\* summary_data: a row for each path of converted_files, in order; a path
\* without a file raises in os.path.getsize and is passed over
SummaryData(files, converted) ==
    LET there == SelectSeq(converted, LAMBDA file_path : FileAt(files, file_path) # 0)
    IN [k \in 1..Len(there) |-> SummaryRow(files, there[k])]

\* pd.DataFrame(summary_data): a column for each key, in the order of the
\* keys
SummaryColumns ==
    <<PyStr(S_COL_FILE_NAME), PyStr(S_COL_BUILDING), PyStr(S_COL_ROOM), PyStr(S_COL_FLOOR),
      PyStr(S_COL_CAPACITY), PyStr(S_COL_SIZE_KB), PyStr(S_COL_FILE_PATH)>>
SummaryCells(row) ==
    <<PyStr(row.file_name), PyStr(row.building), PyStr(row.room), PyInt(row.floor),
      PyInt(row.capacity), PyFloat(row.size_kb), PyStr(row.file_path)>>
SummaryFrame(summary_data) ==
    [columns |-> SummaryColumns,
     rows |-> [k \in 1..Len(summary_data) |-> SummaryCells(summary_data[k])]]

\* create_summary_report: the files after it.  Without converted files, or
\* without a row, nothing is written; else the table of the rows is written
\* to conversion_summary.xlsx in the data directory.
CreateSummaryReport(files, converted, at) ==
    IF converted = <<>> \/ SummaryData(files, converted) = <<>> THEN files
    ELSE WriteExcel(files, PathJoin(S_DATA, S_SUMMARY_NAME),
                    SummaryFrame(SummaryData(files, converted)), at)

----------------------------------------------------------------------------
(* UniversalClassroomParserFixed (batch_html_converter.py), built for a    *)
(* given file_path in a directory that already holds converted files.      *)

\* the object __init__ leaves.  _extract_basic_info ends in a print of
\* self.floor, an attribute that exists only when a room number matched:
\* without one the AttributeError reaches the except clause of
\* _load_excel_file, which sets df to None.
UniversalAfterLoad(file_path, df, info) ==
    IF IsNone(df) \/ IsNone(info.room_number)
    THEN [cls |-> "UniversalClassroomParserFixed", file_path |-> file_path,
          building |-> IF IsNone(df) THEN None ELSE info.building,
          room_number |-> None,
          capacity |-> IF IsNone(df) THEN None ELSE info.capacity,
          floor |-> None, time_columns |-> <<>>, df |-> None]
    ELSE [cls |-> "UniversalClassroomParserFixed", file_path |-> file_path,
          building |-> info.building, room_number |-> info.room_number,
          capacity |-> info.capacity, floor |-> info.floor,
          time_columns |-> ExtractTimeColumns(Get(df)), df |-> df]

\* UniversalClassroomParserFixed.__init__ with _load_excel_file
LoadExcelFile(files, file_path) ==
    UniversalAfterLoad(file_path, ReadExcel(files, file_path, "auto"),
                       ExtractBasicInfo(file_path))

\* UniversalClassroomParserFixed.get_room_status_at_time from the row
\* selection on
UniversalStatusInRows(df, time_columns, date_data, d, time) ==
    IF date_data = <<>>
    THEN Return([status |-> "no_data", message |-> <<"no_data", d>>])
    ELSE IF ~IsSlot(time_columns, time \o S_TILDE)
    THEN Return([status |-> "invalid_time", message |-> <<"invalid_time", time>>,
                 available_times |-> time_columns])
    ELSE StatusResult(FirstCell(df, date_data, time \o S_TILDE), d, time,
                      DayOfWeek(df, date_data))

\* the same from the date conversion on
UniversalStatusInTable(df, time_columns, d, time) ==
    IF IsNone(d) THEN Return([status |-> "error", message |-> <<"date_format">>])
    ELSE IF ColumnIndex(df, S_DATE_COLUMN) = 0 THEN Raise("KeyError")
    ELSE UniversalStatusInRows(df, time_columns, RowsOfDate(df, Get(d)), Get(d), time)

\* UniversalClassroomParserFixed.get_room_status_at_time
UniversalGetRoomStatusAtTime(p, date, time) ==
    IF IsNone(p.df) THEN Return([status |-> "error", message |-> <<"load">>])
    ELSE UniversalStatusInTable(Get(p.df), p.time_columns, CoerceDate(date), time)

----------------------------------------------------------------------------
(* ClassroomSearcher                                                       *)

\* the dict _scan_available_files appends for a file, from the three
\* matches; search_available_rooms later adds the keys consecutive_hours
\* and parser to it
EntryFields(file, building_match, room_match, capacity_match) ==
    [file_path |-> PathJoin(S_DATA, file),
     building |-> Get(building_match),
     room_number |-> Get(room_match),
     floor |-> IntOfDigits(Get(room_match)) \div 100,
     capacity |-> IF IsNone(capacity_match) THEN 0 ELSE IntOfDigits(Get(capacity_match)),
     filename |-> file,
     consecutive_hours |-> None,
     parser |-> None]

CatalogEntry(file) ==
    EntryFields(file, BuildingMatch(file), RoomMatch(file), CapacityMatch(file))

\* variant: every '.xlsx' file is scanned
IsCataloguedAnyXlsx(file) ==
    /\ EndsWith(file, S_XLSX)
    /\ ~IsNone(BuildingMatch(file))
    /\ ~IsNone(RoomMatch(file))

\* whether _scan_available_files appends an entry for the file
IsCatalogued(file) ==
    /\ EndsWith(file, S_CONVERTED_XLSX)
    /\ ~IsNone(BuildingMatch(file))
    /\ ~IsNone(RoomMatch(file))

\* the names _scan_available_files keeps, in os.listdir order
CataloguedNames(files) ==
    SelectSeq([i \in 1..Len(files) |-> files[i].name], IsCatalogued)

\* the list of entries for those names
EntriesOf(names) == [i \in 1..Len(names) |-> CatalogEntry(names[i])]

\* _scan_available_files over os.listdir(data_directory)
ScanAvailableFiles(files) == EntriesOf(CataloguedNames(files))

\* the three filters of find_rooms_by_criteria over positions
FilterBuilding(entries, at, building) ==
    IF IsNone(building) \/ Get(building) = <<>> THEN at
    ELSE SelectSeq(at, LAMBDA i : entries[i].building = Get(building))

FilterFloor(entries, at, floor) ==
    IF IsNone(floor) THEN at
    ELSE SelectSeq(at, LAMBDA i : entries[i].floor = Get(floor))

FilterCapacity(entries, at, min_capacity) ==
    IF IsNone(min_capacity) THEN at
    ELSE SelectSeq(at, LAMBDA i : entries[i].capacity >= Get(min_capacity))

\* find_rooms_by_criteria: the matching entries, as their positions in
\* available_files (the list holds the catalog's own dict objects).
\* Each argument is None or Some(value); "if building" also skips "".
FindRoomsByCriteria(entries, building, floor, min_capacity) ==
    FilterCapacity(entries,
        FilterFloor(entries,
            FilterBuilding(entries, [i \in 1..Len(entries) |-> i], building),
            floor),
        min_capacity)

\* the counting loop of search_available_rooms: the statuses that hold
\* '사용 가능' before the first one that does not
RECURSIVE ConsecutiveAvailable(_)
ConsecutiveAvailable(available_times) ==
    IF available_times = <<>> THEN 0
    ELSE IF Contains(Head(available_times)[2], S_FREE)
    THEN 1 + ConsecutiveAvailable(Tail(available_times))
    ELSE 0

\* consecutive_available / 2, a float with one decimal: <<integer part, tenths>>
HalfOf(n) == <<n \div 2, 5 * (n % 2)>>

\* the end of the loop body: the entry is kept when the count reaches
\* duration_hours * 2
KeepIfLongEnough(room_info, p, consecutive_available, duration_hours) ==
    IF consecutive_available >= duration_hours * 2
    THEN [entry |-> [room_info EXCEPT !.consecutive_hours = Some(HalfOf(consecutive_available)),
                                      !.parser = Some(p)],
          found |-> TRUE]
    ELSE [entry |-> room_info, found |-> FALSE]

\* variant: a candidate without slots to count has a run of 0 slots
CandidateOutcomeCountEmpty(room_info, p, available_times, duration_hours) ==
    IF ~available_times.ok THEN [entry |-> room_info, found |-> FALSE]
    ELSE KeepIfLongEnough(room_info, p, ConsecutiveAvailable(available_times.value),
                          duration_hours)

\* the loop body once available_times is known: an exception is caught and
\* the candidate skipped, and so is an empty list
CandidateOutcome(room_info, p, available_times, duration_hours) ==
    IF ~available_times.ok THEN [entry |-> room_info, found |-> FALSE]
    ELSE IF available_times.value = <<>> THEN [entry |-> room_info, found |-> FALSE]
    ELSE KeepIfLongEnough(room_info, p, ConsecutiveAvailable(available_times.value),
                          duration_hours)

\* the loop body once the parser is built
CandidateWithParser(room_info, p, date, start_time, duration_hours) ==
    CandidateOutcome(room_info, p, GetAvailableTimesFrom(p, date, start_time),
                     duration_hours)

\* the body of the search loop for one candidate: the entry as the loop
\* leaves it, and whether it was appended to available_rooms
SearchCandidate(files, room_info, date, start_time, duration_hours) ==
    CandidateWithParser(room_info, LoadAndParse(files, room_info.file_path),
                        date, start_time, duration_hours)

\* the loop of search_available_rooms over candidate_rooms; done[i] is the
\* outcome of the body for entry i
SearchLoop(entries, candidate_rooms, done) ==
    [entries |-> [i \in 1..Len(entries) |->
                    IF \E k \in 1..Len(candidate_rooms) : candidate_rooms[k] = i
                    THEN done[i].entry ELSE entries[i]],
     rooms |-> SelectSeq(candidate_rooms, LAMBDA i : done[i].found)]

\* search_available_rooms: the catalog after the call and the list returned,
\* as positions in available_files
SearchAvailableRooms(files, entries, building, floor, date, start_time, duration_hours) ==
    SearchLoop(entries,
               FindRoomsByCriteria(entries, building, floor, None),
               [i \in 1..Len(entries) |->
                   SearchCandidate(files, entries[i], date, start_time, duration_hours)])

----------------------------------------------------------------------------
(* search_classrooms and the two listings it validates against.            *)

\* the values of a list, each once, in the order of their first place
RECURSIVE Distinct(_)
Distinct(xs) ==
    IF xs = <<>> THEN <<>>
    ELSE LET rest == Distinct(SubSeq(xs, 1, Len(xs) - 1))
         IN IF \E i \in 1..Len(rest) : rest[i] = xs[Len(xs)] THEN rest
            ELSE Append(rest, xs[Len(xs)])

\* variant: the buildings in catalog order
GetAvailableBuildingsUnsorted(entries) ==
    Distinct([i \in 1..Len(entries) |-> entries[i].building])

\* get_available_buildings: sorted(list(set(...)))
GetAvailableBuildings(entries) ==
    SortStrings(Distinct([i \in 1..Len(entries) |-> entries[i].building]))

\* get_available_floors_in_building
GetAvailableFloorsInBuilding(entries, building) ==
    LET hit == SelectSeq(entries, LAMBDA f : f.building = building)
    IN SortInts(Distinct([i \in 1..Len(hit) |-> hit[i].floor]))

\* ClassroomParser.get_room_info
GetRoomInfo(p) ==
    [building |-> p.building, room_number |-> p.room_number, floor |-> p.floor,
     capacity |-> p.capacity, time_slots |-> Len(p.time_columns),
     data_rows |-> IF IsNone(p.df) THEN 0 ELSE Len(Get(p.df).rows)]

\* an item of the list 'rooms' of a successful search
RoomResult(room) ==
    [building |-> room.building, room_number |-> room.room_number,
     capacity |-> room.capacity, consecutive_hours |-> Get(room.consecutive_hours),
     room_info |-> GetRoomInfo(Get(room.parser))]

\* search_classrooms after the search itself: found == [entries, rooms]
ClassroomsFound(found, building, floor, date, start_time, duration_hours) ==
    IF found.rooms = <<>>
    THEN Return([status |-> "no_rooms", message |-> <<building, <<floor>>, start_time, <<duration_hours>>>>])
    ELSE Return([status |-> "success",
                 search_criteria |-> [building |-> building, floor |-> floor, date |-> date,
                                      start_time |-> start_time, duration_hours |-> duration_hours],
                 found_rooms |-> Len(found.rooms),
                 rooms |-> [k \in 1..Len(found.rooms) |-> RoomResult(found.entries[found.rooms[k]])]])

\* search_classrooms after the building check
ClassroomsInBuilding(files, entries, available_floors, building, floor, date, start_time, duration_hours) ==
    IF \A k \in 1..Len(available_floors) : available_floors[k] # floor
    THEN Return([status |-> "error", message |-> <<building, <<floor>>>>,
                 available_floors |-> available_floors])
    ELSE ClassroomsFound(SearchAvailableRooms(files, entries, Some(building), Some(floor), date,
                                              start_time, duration_hours),
                         building, floor, date, start_time, duration_hours)

\* search_classrooms on the catalog of its own searcher
ClassroomsInCatalog(files, entries, available_buildings, building, floor, date, start_time, duration_hours) ==
    IF \A k \in 1..Len(available_buildings) : available_buildings[k] # building
    THEN Return([status |-> "error", message |-> <<building>>,
                 available_buildings |-> available_buildings])
    ELSE ClassroomsInBuilding(files, entries, GetAvailableFloorsInBuilding(entries, building),
                              building, floor, date, start_time, duration_hours)

\* search_classrooms(building, floor, date, start_time, duration_hours)
SearchClassrooms(files, entries, building, floor, date, start_time, duration_hours) ==
    ClassroomsInCatalog(files, entries, GetAvailableBuildings(entries), building, floor, date,
                        start_time, duration_hours)

----------------------------------------------------------------------------
(* Explored inputs: file names, tables and directories.                    *)

N_PRIME301 == <<54532, 46972, 51076, 44288, 51, 48, 49, 44, 49688, 50857, 51064, 50896, 32, 48, 48, 55, 48, 47749, 44, 52897, 49828, 53668, 46356, 51088, 51064, 44053, 51032, 49892, 40, 50504, 50976, 54788, 44053, 51032, 49892, 41, 95, 99, 111, 110, 118, 101, 114, 116, 101, 100, 46, 120, 108, 115, 120>> \* "프라임관301,수용인원 0070명,캡스톤디자인강의실(안유현강의실)_converted.xlsx"
N_PRIME302 == <<54532, 46972, 51076, 44288, 51, 48, 50, 44, 49688, 50857, 51064, 50896, 32, 52, 48, 47749, 44, 65, 95, 99, 111, 110, 118, 101, 114, 116, 101, 100, 46, 120, 108, 115, 120>> \* "프라임관302,수용인원 40명,A_converted.xlsx"
N_ENG105 == <<44277, 54617, 44288, 49, 48, 53, 44, 49688, 50857, 51064, 50896, 51, 48, 47749, 95, 99, 111, 110, 118, 101, 114, 116, 101, 100, 46, 120, 108, 115, 120>> \* "공학관105,수용인원30명_converted.xlsx"
N_NOBUILDING == <<51, 48, 49, 44, 49688, 50857, 51064, 50896, 32, 50, 48, 47749, 95, 99, 111, 110, 118, 101, 114, 116, 101, 100, 46, 120, 108, 115, 120>> \* "301,수용인원 20명_converted.xlsx"
N_NOROOM == <<54532, 46972, 51076, 44288, 44, 49688, 50857, 51064, 50896, 32, 50, 48, 47749, 95, 99, 111, 110, 118, 101, 114, 116, 101, 100, 46, 120, 108, 115, 120>> \* "프라임관,수용인원 20명_converted.xlsx"
N_RAW == <<54532, 46972, 51076, 44288, 51, 48, 49, 44, 49688, 50857, 51064, 50896, 32, 48, 48, 55, 48, 47749, 44, 65, 46, 88, 76, 83>> \* "프라임관301,수용인원 0070명,A.XLS"
N_UNCONVERTED == <<54532, 46972, 51076, 44288, 51, 48, 51, 44, 49688, 50857, 51064, 50896, 32, 49, 48, 47749, 46, 120, 108, 115, 120>> \* "프라임관303,수용인원 10명.xlsx"
B_PRIME == <<54532, 46972, 51076, 44288>>                 \* "프라임관"
B_ENG == <<44277, 54617, 44288>>                          \* "공학관"

\* dates: two that the generated tables hold and one they do not
Dates == <<20250901, 20250902, 20250903>>

\* n as two digits
Pad2(n) == IF n < 10 THEN <<48>> \o StrOfNat(n) ELSE StrOfNat(n)

\* the start "HH:MM" of the i-th half-hour slot from 09:00
SlotTime(i) == Pad2(9 + (i - 1) \div 2) \o <<58>> \o Pad2(30 * ((i - 1) % 2))

\* cell contents: empty, blanks, a label, a label in blanks, and a label
\* that reads '사용 가능'
CellValues == {NaN, PyStr(<<>>), PyStr(<<32, 32>>), PyStr(<<65>>), PyStr(<<32, 65, 32>>), PyStr(S_FREE)}
SearchCellValues == {NaN, PyStr(<<32, 32>>), PyStr(<<65>>), PyStr(S_FREE)}

\* the headers as the file has them: the slots in descending order between
\* the date and weekday columns and two columns that are no slots, "비고"
\* and the number 1200
TableColumns ==
    <<PyStr(S_DATE_COLUMN), PyStr(S_DOW_COLUMN)>>
    \o [k \in 1..NumSlots |-> PyStr(SlotTime(NumSlots + 1 - k) \o S_TILDE)]
    \o <<PyStr(<<48708, 44256>>), PyInt(1200)>>

\* a row: cells[i] is the cell of the i-th slot
TableRow(date, dow, cells) ==
    <<date, dow>> \o [k \in 1..NumSlots |-> cells[NumSlots + 1 - k]] \o <<NaN, NaN>>

\* a table with two rows of the first date (the first one holds cells), a
\* row without a date and an all-free row of the second date
Table(cells) ==
    [columns |-> TableColumns,
     rows |-> <<TableRow(PyInt(Dates[1]), PyStr(<<50900>>), cells),
                TableRow(PyInt(Dates[1]), PyStr(<<50900>>), [i \in 1..NumSlots |-> PyStr(<<90>>)]),
                TableRow(NaN, NaN, [i \in 1..NumSlots |-> NaN]),
                TableRow(PyInt(Dates[2]), PyStr(<<54868>>), [i \in 1..NumSlots |-> NaN])>>]

\* the same table without the rows of the first date
TableWithoutFirstDate(cells) ==
    [columns |-> TableColumns, rows |-> SubSeq(Table(cells).rows, 3, 4)]

\* the same table without the date and weekday columns
TableWithoutDateColumn(cells) ==
    [columns |-> SubSeq(TableColumns, 3, Len(TableColumns)),
     rows |-> [r \in 1..4 |-> SubSeq(Table(cells).rows[r], 3, Len(TableColumns))]]

EmptyTable == [columns |-> <<>>, rows |-> <<>>]

File(name, format, df) == [name |-> name, format |-> format, df |-> df, size |-> FixtureSize]

\* the first k slots free, the rest taken
FreeUntil(k) == [i \in 1..NumSlots |-> IF i <= k THEN NaN ELSE PyStr(<<65>>)]

\* what a converted file of a directory may hold
FixtureContents ==
    {<<"xlsx", Table(FreeUntil(NumSlots))>>,
     <<"xlsx", Table(FreeUntil(1))>>,
     <<"xlsx", TableWithoutFirstDate(FreeUntil(NumSlots))>>,
     <<"xlsx", TableWithoutDateColumn(FreeUntil(NumSlots))>>,
     <<"html", EmptyTable>>}

\* directories of several rooms
FixtureDirs ==
    {<<File(N_PRIME301, c1[1], c1[2]),
       File(N_NOROOM, "xlsx", Table(FreeUntil(NumSlots))),
       File(N_PRIME302, c2[1], c2[2]),
       File(N_ENG105, "xlsx", Table(FreeUntil(2))),
       File(N_NOBUILDING, "xlsx", Table(FreeUntil(NumSlots))),
       File(N_UNCONVERTED, "xlsx", Table(FreeUntil(NumSlots))),
       File(N_RAW, "html", EmptyTable)>> : c1 \in FixtureContents, c2 \in FixtureContents}

\* directories of one room whose table ranges over every row content
ParserDirs ==
    {<<File(N_PRIME301, "xlsx", Table(cells))>> : cells \in [1..NumSlots -> CellValues]}
    \cup {<<File(N_PRIME301, c[1], c[2]), File(N_NOROOM, "xlsx", Table(FreeUntil(1))), File(N_RAW, "html", EmptyTable)>> : c \in FixtureContents}

SearchDirs ==
    {<<File(N_PRIME301, "xlsx", Table(cells))>> : cells \in [1..NumSlots -> SearchCellValues]}
    \cup FixtureDirs

\* file names of the naming convention, from their parts: the building
\* stem, the room number with rz leading zeros, sp blanks after the capacity
\* label, the capacity with cz leading zeros, the free text and the ending
Zeros(k) == [i \in 1..k |-> 48]
Blanks(k) == [i \in 1..k |-> 32]

NameParts ==
    [stem : {<<54532, 46972, 51076>>, <<44288, 44305>>, <<48376, 44288, 48324>>},  \* "프라임", "관광", "본관별"
     room : {7, 301, 1204},
     rz : 0..MaxLeadingZeros,
     sp : 0..MaxSpaces,
     cap : {0, 70},
     cz : 0..MaxLeadingZeros,
     free : {<<65>>, <<48376, 44288, 55, 54840>>},                                 \* "A", "본관7호"
     ext : {S_CONVERTED_XLSX, S_XLS}]

Assemble(q) ==
    q.stem \o S_GWAN \o Zeros(q.rz) \o StrOfNat(q.room) \o <<44>>
    \o S_CAPACITY_LABEL \o Blanks(q.sp) \o Zeros(q.cz) \o StrOfNat(q.cap) \o S_CAPACITY_UNIT
    \o <<44>> \o q.free \o q.ext

NamedParts == {<<Assemble(q), q>> : q \in NameParts}

\* file names outside the convention: no building, no room number, a "관"
\* with nothing before it, a building in Latin letters and no unit after
\* the capacity, and a room number cut short by a syllable
MalformedNames ==
    {N_NOBUILDING, N_NOROOM,
     <<44288, 51, 48, 49, 95, 99, 111, 110, 118, 101, 114, 116, 101, 100, 46, 120, 108, 115, 120>>,
     <<73, 84, 44288, 51, 48, 49, 44, 49688, 50857, 51064, 50896, 49, 48, 95, 99, 111, 110, 118, 101, 114, 116, 101, 100, 46, 120, 108, 115, 120>>,
     <<54532, 46972, 51076, 44288, 51, 52789, 46, 120, 108, 115, 120>>}

\* the names converted files get in the directories of files to convert:
\* those outside the convention and those of the convention with every
\* leading zero and blank
SummaryNames ==
    {n \in MalformedNames : EndsWith(n, S_CONVERTED_XLSX)}
    \cup {np[1] : np \in {x \in NamedParts :
                               /\ x[2].ext = S_CONVERTED_XLSX
                               /\ x[2].rz = MaxLeadingZeros /\ x[2].cz = MaxLeadingZeros
                               /\ x[2].sp = MaxSpaces /\ x[2].cap = 70
                               /\ x[2].free = <<65>> /\ x[2].room = 1204
                               /\ x[2].stem = <<48376, 44288, 48324>>}}
\* the HTML file that is converted to the file named n
RawOf(n) == SubSeq(n, 1, Len(n) - Len(S_CONVERTED_XLSX)) \o S_XLS

\* directories of one loadable file, for every such name, and directories
\* of one HTML file to convert
ExtractDirs ==
    {<<File(n, IF EndsWith(n, S_XLS) THEN "xls" ELSE "xlsx", Table(FreeUntil(1)))>> :
        n \in {np[1] : np \in NamedParts} \cup MalformedNames}
    \cup {<<File(RawOf(n), "html", Table(FreeUntil(1)))>> : n \in SummaryNames}

\* directories whose names give catalogs of several buildings, floors
\* (floor 0 among them) and capacities (a name without one among them)
N_HALL005 == <<48376, 44288, 48, 48, 53, 95, 99, 111, 110, 118, 101, 114, 116, 101, 100, 46, 120, 108, 115, 120>> \* "본관005_converted.xlsx"
B_HALL == <<48376, 44288>>                                   \* "본관"
FilterNames ==
    {<<N_PRIME301, N_PRIME302, N_ENG105, N_HALL005>>,
     <<N_HALL005, N_NOROOM, N_ENG105, N_PRIME301>>,
     <<N_PRIME302, N_RAW, N_PRIME301>>,
     <<N_HALL005>>}
FilterDirs ==
    {[i \in 1..Len(ns) |-> File(ns[i], "xlsx", Table(FreeUntil(1)))] : ns \in FilterNames}

\* arguments of find_rooms_by_criteria: omitted (None) or supplied
FilterBuildings == {None, Some(<<>>), Some(B_PRIME), Some(B_HALL)}
FilterFloors == {None, Some(0), Some(3)}
FilterCapacities == {None, Some(0), Some(40), Some(71)}

\* directories of one room whose table has up to MaxRows rows, the date
\* cell of each an int date, a float date, missing, a str that is no
\* integer, or a str of digits; row r has its first r - 1 slots free
DateCells ==
    {PyInt(Dates[1]), PyInt(Dates[2]), PyFloat(10 * Dates[1]), NaN,
     PyStr(<<48120, 51221>>), PyStr(StrOfNat(Dates[2]))}  \* "미정"
DatedTable(cells) ==
    [columns |-> TableColumns,
     rows |-> [r \in 1..Len(cells) |-> TableRow(cells[r], NaN, FreeUntil(r - 1))]]
DateDirs ==
    {<<File(N_PRIME301, "xlsx", DatedTable(cells))>> :
        cells \in UNION {[1..n -> DateCells] : n \in 1..MaxRows}}
DateQueryDates == {PyInt(Dates[1]), PyInt(Dates[2])}
DateQueryTimes == {SlotTime(1), SlotTime(2)}

\* directories of files to convert: a name in capitals, one in small
\* letters and one that is only the extension, each an HTML file with a
\* table, an HTML file without one or a real xls file; some with a converted
\* file already there
N_RAW_SMALL == <<44277, 54617, 44288, 49, 48, 53, 44, 49688, 50857, 51064, 50896, 51, 48, 47749, 46, 120, 108, 115>> \* "공학관105,수용인원30명.xls"
N_DOTFILE == <<46, 120, 108, 115>>                           \* ".xls"
N_RAW_OUT == <<54532, 46972, 51076, 44288, 51, 48, 49, 44, 49688, 50857, 51064, 50896, 32, 48, 48, 55, 48, 47749, 44, 65, 95, 99, 111, 110, 118, 101, 114, 116, 101, 100, 46, 120, 108, 115, 120>> \* "프라임관301,수용인원 0070명,A_converted.xlsx"
RawContents ==
    {<<"html", Table(FreeUntil(1))>>, <<"html", NoTable>>, <<"xls", Table(FreeUntil(2))>>}
ConvertPaths == {PathJoin(S_DATA, n) : n \in {N_RAW, N_RAW_OUT}}
ConvertDirs ==
    {<<File(N_RAW, c1[1], c1[2]), File(N_RAW_SMALL, c2[1], c2[2]), File(N_DOTFILE, c3[1], c3[2])>> \o old :
        c1 \in RawContents, c2 \in RawContents, c3 \in RawContents,
        old \in {<<>>, <<File(N_RAW_OUT, "xlsx", Table(FreeUntil(NumSlots)))>>}}

\* directories for search_classrooms: those of the searches and one whose
\* catalog lists a building's floors out of order
N_PRIME105 == <<54532, 46972, 51076, 44288, 49, 48, 53, 95, 99, 111, 110, 118, 101, 114, 116, 101, 100, 46, 120, 108, 115, 120>> \* "프라임관105_converted.xlsx"
ClassroomDirs ==
    SearchDirs \cup
    {<<File(N_PRIME301, "xlsx", Table(FreeUntil(NumSlots))),
       File(N_PRIME105, "xlsx", Table(FreeUntil(2))),
       File(N_ENG105, "xlsx", Table(FreeUntil(1)))>>}
ClassroomBuildings == {B_PRIME, B_ENG, B_HALL, <<>>}
ClassroomFloors == {3, 1, 0}

\* arguments of the queries
D1_UNDERSCORE == <<50, 48, 50, 53, 95, 48, 57, 48, 49>>                 \* "2025_0901"
D1_ARABIC == <<1634, 1632, 1634, 1637, 1632, 1641, 1632, 1633>>         \* "٢٠٢٥٠٩٠١"
\* the strings among the explored date arguments that are integer literals,
\* each with the int it denotes
DateLiterals ==
    {<<StrOfNat(Dates[k]), Dates[k]>> : k \in 1..Len(Dates)}
        \cup {<<D1_UNDERSCORE, Dates[1]>>, <<D1_ARABIC, Dates[1]>>}
QueryDates ==
    {PyInt(Dates[1]), PyStr(StrOfNat(Dates[1])), PyInt(Dates[3]), PyStr(<<57, 47, 49>>),
     PyStr(D1_UNDERSCORE), PyStr(D1_ARABIC), PyFloat(10 * Dates[1])}
QueryTimes == {<<48, 56, 58, 48, 48>>, <<48, 57, 58, 49, 53>>, <<50, 51, 58, 48, 48>>} \cup {SlotTime(i) : i \in 1..NumSlots}
SearchDates == {PyInt(Dates[1]), PyInt(Dates[3])}
SearchBuildings == {Some(B_PRIME), Some(B_ENG)}
SearchFloors == {Some(3), Some(1)}
SearchTimes == {<<48, 56, 58, 48, 48>>, SlotTime(2), <<50, 51, 58, 48, 48>>}
ParserPaths == {PathJoin(S_DATA, n) : n \in {N_PRIME301, N_NOROOM, N_RAW}}

----------------------------------------------------------------------------
(* The state: the files of the data directory (fs), the parser object in   *)
(* use (None before one is built), the catalog available_files of the      *)
(* searcher (None before one is built), the list converted_files of the    *)
(* converter (None before one is built), the call whose outcome the caller *)
(* holds and that outcome.  The program is sequential: a call is made,     *)
(* its outcome is read, and the caller lets go of it before the next call. *)

NoCall == [op |-> "none"]

InitObjects ==
    /\ parser = None
    /\ available_files = None
    /\ converted_files = None
    /\ call = NoCall
    /\ result = Return(<<>>)

\* ClassroomParser(file_path)
NewParser(file_path) ==
    /\ call = NoCall
    /\ parser' = Some(LoadAndParse(fs, file_path))
    /\ UNCHANGED <<fs, converted_files, available_files, call, result>>

\* UniversalClassroomParserFixed(file_path), in a directory that holds a
\* converted file, so that _ensure_excel_files converts nothing
NewUniversalParser(file_path) ==
    /\ call = NoCall
    /\ \E i \in 1..Len(fs) : EndsWith(fs[i].name, S_CONVERTED_XLSX)
    /\ parser' = Some(LoadExcelFile(fs, file_path))
    /\ UNCHANGED <<fs, converted_files, available_files, call, result>>

\* parser.get_room_status_at_time(date, time), of either class
StatusAt(date, time) ==
    /\ call = NoCall
    /\ ~IsNone(parser)
    /\ call' = [op |-> "get_room_status_at_time", date |-> date, time |-> time]
    /\ result' = IF Get(parser).cls = "ClassroomParser"
                 THEN GetRoomStatusAtTime(Get(parser), date, time)
                 ELSE UniversalGetRoomStatusAtTime(Get(parser), date, time)
    /\ UNCHANGED <<fs, converted_files, parser, available_files>>

\* parser.get_available_times_from(date, start_time)
AvailableFrom(date, start_time) ==
    /\ call = NoCall
    /\ ~IsNone(parser)
    /\ Get(parser).cls = "ClassroomParser"
    /\ call' = [op |-> "get_available_times_from", date |-> date, time |-> start_time]
    /\ result' = GetAvailableTimesFrom(Get(parser), date, start_time)
    /\ UNCHANGED <<fs, converted_files, parser, available_files>>

\* parser.get_full_schedule_for_date(date)
FullSchedule(date) ==
    /\ call = NoCall
    /\ ~IsNone(parser)
    /\ Get(parser).cls = "ClassroomParser"
    /\ call' = [op |-> "get_full_schedule_for_date", date |-> date]
    /\ result' = GetFullScheduleForDate(Get(parser), date)
    /\ UNCHANGED <<fs, converted_files, parser, available_files>>

\* ClassroomSearcher(): __init__ scans the directory
NewSearcher ==
    /\ call = NoCall
    /\ available_files' = Some(ScanAvailableFiles(fs))
    /\ UNCHANGED <<fs, converted_files, parser, call, result>>

\* searcher.search_available_rooms(building, floor, date, start_time,
\* duration_hours): the entries kept gain consecutive_hours and parser, in
\* the catalog's own dicts, and the list returned refers to those dicts
Search(building, floor, date, start_time, duration_hours) ==
    /\ call = NoCall
    /\ ~IsNone(available_files)
    /\ \E r \in {SearchAvailableRooms(fs, Get(available_files), building, floor,
                                       date, start_time, duration_hours)} :
          /\ available_files' = Some(r.entries)
          /\ result' = Return(r.rooms)
    /\ call' = [op |-> "search_available_rooms", building |-> building, floor |-> floor,
                date |-> date, time |-> start_time, duration_hours |-> duration_hours]
    /\ UNCHANGED <<fs, converted_files, parser>>

\* converter.create_summary_report(): it returns nothing
SummaryReport ==
    /\ call = NoCall
    /\ ~IsNone(converted_files)
    /\ \E at \in WritesOf(fs, PathJoin(S_DATA, S_SUMMARY_NAME)) :
          fs' = CreateSummaryReport(fs, Get(converted_files), at)
    /\ call' = [op |-> "create_summary_report"]
    /\ result' = Return(None)
    /\ UNCHANGED <<converted_files, parser, available_files>>

\* parser.get_available_dates()
AvailableDates ==
    /\ call = NoCall
    /\ ~IsNone(parser)
    /\ Get(parser).cls = "ClassroomParser"
    /\ call' = [op |-> "get_available_dates"]
    /\ result' = GetAvailableDates(Get(parser))
    /\ UNCHANGED <<fs, converted_files, parser, available_files>>

\* searcher.find_rooms_by_criteria(building, floor, min_capacity): the list
\* returned refers to the catalog's own dicts
FindRooms(building, floor, min_capacity) ==
    /\ call = NoCall
    /\ ~IsNone(available_files)
    /\ call' = [op |-> "find_rooms_by_criteria", building |-> building, floor |-> floor,
                min_capacity |-> min_capacity]
    /\ result' = Return(FindRoomsByCriteria(Get(available_files), building, floor, min_capacity))
    /\ UNCHANGED <<fs, converted_files, parser, available_files>>

\* HTMLToExcelConverter()
NewConverter ==
    /\ call = NoCall
    /\ converted_files' = Some(<<>>)
    /\ UNCHANGED <<fs, parser, available_files, call, result>>

\* converter.convert_all_files(); the call record keeps the paths given to
\* convert_single_file and the two counts the call prints
ConvertAll ==
    /\ call = NoCall
    /\ ~IsNone(converted_files)
    /\ Len(Get(converted_files)) <= MaxConverted
    /\ \E html_files \in {FindHtmlFiles(fs)} :
       \E writes \in BatchWrites(fs, html_files) :
       \E r \in {ConvertAllFiles(fs, Get(converted_files), html_files, writes)} :
          /\ fs' = r.run.st.fs
          /\ converted_files' = Some(r.run.st.converted_files)
          /\ result' = r.result
          /\ call' = [op |-> "convert_all_files", attempted |-> r.run.attempted,
                      converted_count |-> r.run.converted_count,
                      failed_count |-> r.run.failed_count]
    /\ UNCHANGED <<parser, available_files>>

\* converter.convert_single_file(html_file_path)
ConvertSingle(html_file_path) ==
    /\ call = NoCall
    /\ ~IsNone(converted_files)
    /\ Len(Get(converted_files)) <= MaxConverted
    /\ \E at \in WritesOf(fs, OutputPath(html_file_path)) :
       \E done \in {ConvertSingleFile([fs |-> fs, converted_files |-> Get(converted_files)],
                                      html_file_path, ReadHtml(fs, html_file_path), at)} :
          /\ fs' = done.st.fs
          /\ converted_files' = Some(done.st.converted_files)
          /\ result' = Return(done.result)
    /\ call' = [op |-> "convert_single_file", html_file_path |-> html_file_path]
    /\ UNCHANGED <<parser, available_files>>

\* search_classrooms(building, floor, date, start_time, duration_hours): the
\* function builds a searcher of its own
SearchClassroomsCall(building, floor, date, start_time, duration_hours) ==
    /\ call = NoCall
    /\ call' = [op |-> "search_classrooms", building |-> building, floor |-> floor,
                date |-> date, time |-> start_time, duration_hours |-> duration_hours]
    /\ result' = SearchClassrooms(fs, ScanAvailableFiles(fs), building, floor, date, start_time,
                                  duration_hours)
    /\ UNCHANGED <<fs, converted_files, parser, available_files>>

\* the caller lets go of the outcome of the last call
Discard ==
    /\ call # NoCall
    /\ call' = NoCall
    /\ result' = Return(<<>>)
    /\ UNCHANGED <<fs, converted_files, parser, available_files>>

----------------------------------------------------------------------------
(* Specifications.                                                         *)

\* the point and range queries of a parser over every row content
InitParser == fs \in ParserDirs /\ InitObjects

NextParser ==
    \/ \E path \in ParserPaths : NewParser(path)
    \/ \E path \in ParserPaths : NewUniversalParser(path)
    \/ \E d \in QueryDates, t \in QueryTimes : StatusAt(d, t)
    \/ \E d \in QueryDates, t \in QueryTimes : AvailableFrom(d, t)
    \/ \E d \in QueryDates : FullSchedule(d)
    \/ Discard

SpecParser == InitParser /\ [][NextParser]_vars

\* the catalog and its searches
InitSearch == fs \in SearchDirs /\ InitObjects

NextSearch ==
    \/ NewSearcher
    \/ \E b \in SearchBuildings, f \in SearchFloors, d \in SearchDates,
          t \in SearchTimes, h \in 0..MaxDuration : Search(b, f, d, t, h)
    \/ Discard

SpecSearch == InitSearch /\ [][NextSearch]_vars

\* the metadata read off file names
InitExtract == fs \in ExtractDirs /\ InitObjects

NextExtract ==
    \/ \E i \in 1..Len(fs) : NewParser(PathJoin(S_DATA, fs[i].name))
    \/ NewSearcher
    \/ NewConverter
    \/ ConvertAll
    \/ SummaryReport
    \/ Discard

SpecExtract == InitExtract /\ [][NextExtract]_vars

\* the catalog and its filter
InitFilter == fs \in FilterDirs /\ InitObjects

NextFilter ==
    \/ NewSearcher
    \/ \E b \in FilterBuildings, f \in FilterFloors, c \in FilterCapacities : FindRooms(b, f, c)
    \/ Discard

SpecFilter == InitFilter /\ [][NextFilter]_vars

\* the queries of a parser over every kind of date cell
InitDates == fs \in DateDirs /\ InitObjects

NextDates ==
    \/ NewParser(PathJoin(S_DATA, N_PRIME301))
    \/ AvailableDates
    \/ \E d \in DateQueryDates, t \in DateQueryTimes : StatusAt(d, t)
    \/ \E d \in DateQueryDates, t \in DateQueryTimes : AvailableFrom(d, t)
    \/ \E d \in DateQueryDates : FullSchedule(d)
    \/ Discard

SpecDates == InitDates /\ [][NextDates]_vars

\* the batch conversion
InitConvert == fs \in ConvertDirs /\ InitObjects

NextConvert ==
    \/ NewConverter
    \/ ConvertAll
    \/ \E path \in ConvertPaths : ConvertSingle(path)
    \/ Discard

SpecConvert == InitConvert /\ [][NextConvert]_vars

\* the search function
InitClassrooms == fs \in ClassroomDirs /\ InitObjects

NextClassrooms ==
    \/ \E b \in ClassroomBuildings, f \in ClassroomFloors, d \in SearchDates,
          t \in SearchTimes, h \in 0..MaxDuration : SearchClassroomsCall(b, f, d, t, h)
    \/ Discard

SpecClassrooms == InitClassrooms /\ [][NextClassrooms]_vars

\* everything together, over the directories of several rooms
Init == fs \in FixtureDirs /\ InitObjects

Next ==
    \/ \E path \in ParserPaths : NewParser(path)
    \/ \E path \in ParserPaths : NewUniversalParser(path)
    \/ \E d \in QueryDates, t \in QueryTimes : StatusAt(d, t)
    \/ \E d \in QueryDates, t \in QueryTimes : AvailableFrom(d, t)
    \/ \E d \in QueryDates : FullSchedule(d)
    \/ NewSearcher
    \/ \E b \in SearchBuildings, f \in SearchFloors, d \in SearchDates,
          t \in SearchTimes, h \in 0..MaxDuration : Search(b, f, d, t, h)
    \/ Discard

Spec == Init /\ [][Next]_vars

----------------------------------------------------------------------------
(* Claims.                                                                 *)

\* what the tables hold, read off the files: a cell is blank when it is
\* NaN or a str of white space only
IsBlankCell(c) == c.t = "nan" \/ (c.t = "str" /\ \A i \in 1..Len(c.s) : IsSpace(c.s[i]))

\* the status a slot is to be given for its cell
ExpectedStatus(c) ==
    IF IsBlankCell(c) THEN S_FREE ELSE S_BUSY_OPEN \o c.s \o S_BUSY_CLOSE

HasColumn(df, name) == \E i \in 1..Len(df.columns) : df.columns[i] = PyStr(name)

CellAt(df, row, name) == row[CHOOSE i \in 1..Len(df.columns) : df.columns[i] = PyStr(name)]

\* the positions of the rows of date d
RowsFor(df, d) ==
    {r \in 1..Len(df.rows) : CellAt(df, df.rows[r], S_DATE_COLUMN) \in {PyInt(d), PyFloat(10 * d)}}

\* the first row of date d
FirstRow(df, d) == df.rows[CHOOSE r \in RowsFor(df, d) : \A q \in RowsFor(df, d) : r <= q]

\* the int a date argument denotes, when it denotes one
IsDate(date) ==
    \/ date.t = "int"
    \/ date.t = "float" /\ date.n % 10 = 0
    \/ date.t = "str" /\ \E l \in DateLiterals : date.s = l[1]
DateOf(date) ==
    IF date.t = "int" THEN date.n
    ELSE IF date.t = "float" THEN date.n \div 10
    ELSE (CHOOSE l \in DateLiterals : date.s = l[1])[2]

\* the slot headers of the generated tables, ascending
SlotList == [i \in 1..NumSlots |-> SlotTime(i) \o S_TILDE]

\* the file behind a path
FileOf(path) == fs[CHOOSE i \in 1..Len(fs) : S_DATA \o S_SEP \o fs[i].name = path]

\* a converted file holds a table a query can use
IsUsable(f) == f.format = "xlsx" /\ HasColumn(f.df, S_DATE_COLUMN)

\* the number of blank cells in a row of f's table for date d, from the first
\* slot that starts at or after t up to the first cell that is not blank
FreeRun(f, d, t) ==
    LET from == {i \in 1..NumSlots : StrGeq(SlotTime(i), t)}
        IsRun(k) == \A i \in from : i < k => IsBlankCell(CellAt(f.df, FirstRow(f.df, d), SlotList[i]))
    IN IF from = {} THEN 0
       ELSE Cardinality({i \in from : IsRun(i + 1)})

\* the same, 0 when the file holds no usable table or no row of the date
FreeRunOrZero(f, d, t) ==
    IF IsUsable(f) /\ RowsFor(f.df, d) # {} THEN FreeRun(f, d, t) ELSE 0

\* the call held is of the operation op
Called(op) == call.op = op

\* the call held is a query of a parser about a date
Queried ==
    call.op \in {"get_room_status_at_time", "get_available_times_from", "get_full_schedule_for_date"}

\* the parser in use was loaded with a table that has the date column
ParserUsable ==
    /\ ~IsNone(parser)
    /\ ~IsNone(Get(parser).df)
    /\ HasColumn(Get(Get(parser).df), S_DATE_COLUMN)

\* the last search: its catalog and the positions it returned
Entries == Get(available_files)
Returned(i) == \E k \in 1..Len(result.value) : result.value[k] = i
IsCandidate(e) == e.building = Get(call.building) /\ e.floor = Get(call.floor)

\* C1: the contiguous free run a search reports for a room is the number of
\* available slots from the start time up to the first occupied slot,
\* whatever the occupant labels are.
C1_RunStopsAtFirstOccupied ==
    Called("search_available_rooms") =>
        \A i \in 1..Len(Entries) :
            Returned(i) =>
                Entries[i].consecutive_hours
                    = Some(HalfOf(FreeRun(FileOf(Entries[i].file_path), call.date.n, call.time)))

\* C2: a search returns a candidate if and only if its contiguous free slot
\* count from the start time on the date is at least duration_hours * 2 (also
\* for duration 0 and for a table without a row of the date), and reports
\* that count divided by 2.
C2_ReturnedIffRunLongEnough ==
    Called("search_available_rooms") =>
        \A i \in 1..Len(Entries) :
            IsCandidate(Entries[i]) =>
                /\ Returned(i) <=>
                      FreeRunOrZero(FileOf(Entries[i].file_path), call.date.n, call.time)
                          >= call.duration_hours * 2
                /\ Returned(i) =>
                      Entries[i].consecutive_hours
                          = Some(HalfOf(FreeRunOrZero(FileOf(Entries[i].file_path), call.date.n, call.time)))

\* C3: for a date without a row in a loaded table (one with the usage date
\* column), get_room_status_at_time returns status 'no_data' and
\* get_available_times_from returns the empty list; neither raises.
C3_AbsentDate ==
    (/\ Queried
     /\ ParserUsable
     /\ IsDate(call.date)
     /\ RowsFor(Get(Get(parser).df), DateOf(call.date)) = {}) =>
        /\ Called("get_room_status_at_time") => result.ok /\ result.value.status = "no_data"
        /\ Called("get_available_times_from") => result.ok /\ result.value = <<>>

\* a point query for a missing date at a time that is no slot either
C3_Witness ==
    /\ Called("get_room_status_at_time")
    /\ ParserUsable
    /\ Get(parser).time_columns # <<>>
    /\ call.date = PyInt(Dates[3])
    /\ call.time = <<48, 56, 58, 48, 48>>
    /\ result.ok /\ result.value.status = "no_data"

\* C4: get_room_status_at_time of either parser class answers a time that is
\* no slot with status 'invalid_time' and the sorted list of the slots.
C4_InvalidTimeCarriesSlots ==
    (/\ Called("get_room_status_at_time")
     /\ ParserUsable
     /\ IsDate(call.date)
     /\ RowsFor(Get(Get(parser).df), DateOf(call.date)) # {}
     /\ \A i \in 1..NumSlots : SlotList[i] # call.time \o S_TILDE) =>
        /\ result.ok
        /\ result.value.status = "invalid_time"
        /\ "available_times" \in DOMAIN result.value
        /\ result.value.available_times = SlotList

\* the names of the catalog, in its order
NamesOf(entries) == [i \in 1..Len(entries) |-> entries[i].filename]

\* C5 as claimed: every file whose name ends with '_converted.xlsx' has a
\* catalog entry, also when its name yields no building or no room number.
C5_EveryConvertedFileCatalogued ==
    ~IsNone(available_files) =>
        \A i \in 1..Len(fs) :
            EndsWith(fs[i].name, S_CONVERTED_XLSX) =>
                \E k \in 1..Len(Entries) : Entries[k].filename = fs[i].name

\* C5 as amended: the catalog holds, in directory order, exactly the files
\* whose name ends with '_converted.xlsx' and yields both a building and a
\* room number; a file whose name lacks either has no entry.
C5_CataloguedIffBuildingAndRoom ==
    ~IsNone(available_files) =>
        NamesOf(Entries) =
            SelectSeq([i \in 1..Len(fs) |-> fs[i].name],
                      LAMBDA n : /\ OccursAt(n, S_CONVERTED_XLSX, Len(n) - Len(S_CONVERTED_XLSX) + 1)
                                 /\ ~IsNone(BuildingMatch(n))
                                 /\ ~IsNone(RoomMatch(n)))

\* a catalog of a directory that holds converted files without a building
\* and without a room number
C5_Witness ==
    /\ ~IsNone(available_files)
    /\ Len(Entries) = 3
    /\ \E i \in 1..Len(fs) : fs[i].name = N_NOROOM
    /\ \E i \in 1..Len(fs) : fs[i].name = N_NOBUILDING

\* the start time of a slot header: the header without its last character
StartOf(col) == SubSeq(col, 1, Len(col) - 1)

\* C6: for a date of the table, get_available_times_from(date, t) lists
\* exactly the slots of get_full_schedule_for_date(date) whose start is >= t,
\* in the same ascending order and with the same status.
C6_AvailableIsScheduleFrom ==
    (/\ Called("get_available_times_from")
     /\ ParserUsable
     /\ IsDate(call.date)
     /\ RowsFor(Get(Get(parser).df), DateOf(call.date)) # {}) =>
        /\ result.ok
        /\ \A k \in 1..Len(result.value) : StrGeq(result.value[k][1], call.time)
        /\ \A k \in 1..(Len(result.value) - 1) : StrLess(result.value[k][1], result.value[k + 1][1])
        /\ \E kept \in {SelectSeq(GetFullScheduleForDate(Get(parser), call.date).value.schedule,
                                 LAMBDA e : StrGeq(StartOf(e[1]), call.time))} :
              result.value = [k \in 1..Len(kept) |-> <<StartOf(kept[k][1]), kept[k][2]>>]

\* a range query from a time between two slots that keeps some slots and
\* drops others
C6_Witness ==
    /\ Called("get_available_times_from")
    /\ ParserUsable
    /\ call.time = <<48, 57, 58, 49, 53>>
    /\ result.ok
    /\ Len(result.value) = NumSlots - 1
    /\ result.value[1][2] # S_FREE

\* a catalogued file whose table cannot be loaded
IsUnloadable(e) == FileOf(e.file_path).format # "xlsx"

\* C7: a search leaves out a candidate whose table cannot be loaded and
\* does not raise; the other candidates are kept or dropped as they are by
\* the same search on the catalog without the unloadable entries.
C7_UnloadableCandidateSkipped ==
    Called("search_available_rooms") =>
        /\ result.ok
        /\ \A i \in 1..Len(Entries) : IsUnloadable(Entries[i]) => ~Returned(i)
        /\ \E rest \in {SelectSeq(Entries, LAMBDA e : ~IsUnloadable(e))} :
           \E r \in {SearchAvailableRooms(fs, rest, call.building, call.floor, call.date,
                                          call.time, call.duration_hours)} :
              [k \in 1..Len(result.value) |-> Entries[result.value[k]].filename]
                  = [k \in 1..Len(r.rooms) |-> rest[r.rooms[k]].filename]

\* a search with an unloadable candidate before a candidate that is returned
C7_Witness ==
    /\ Called("search_available_rooms")
    /\ Len(result.value) >= 1
    /\ \E i \in 1..Len(Entries) :
          /\ IsCandidate(Entries[i])
          /\ IsUnloadable(Entries[i])
          /\ \E j \in 1..Len(Entries) : i < j /\ Returned(j)

\* C8: the three queries report a slot available if and only if its cell is
\* the null marker or blank once trimmed, and otherwise occupied with the
\* raw cell value as the label.
C8_BlankIffAvailable ==
    (/\ Queried
     /\ ParserUsable
     /\ IsDate(call.date)
     /\ RowsFor(Get(Get(parser).df), DateOf(call.date)) # {}) =>
        \E df \in {Get(Get(parser).df)} : \E row \in {FirstRow(df, DateOf(call.date))} :
            /\ (Called("get_room_status_at_time") /\ result.ok /\ result.value.status = "success") =>
                  /\ result.value.is_available = IsBlankCell(CellAt(df, row, call.time \o S_TILDE))
                  /\ result.value.usage_info = ExpectedStatus(CellAt(df, row, call.time \o S_TILDE))
            /\ (Called("get_available_times_from") /\ result.ok) =>
                  \A k \in 1..Len(result.value) :
                      result.value[k][2] = ExpectedStatus(CellAt(df, row, result.value[k][1] \o S_TILDE))
            /\ (Called("get_full_schedule_for_date") /\ result.ok) =>
                  /\ Len(result.value.schedule) = NumSlots
                  /\ \A k \in 1..NumSlots :
                        result.value.schedule[k][2]
                            = ExpectedStatus(CellAt(df, row, result.value.schedule[k][1]))

\* a point query on a cell that is a label between blanks
C8_Witness ==
    /\ Called("get_room_status_at_time")
    /\ ParserUsable
    /\ result.ok /\ result.value.status = "success"
    /\ ~result.value.is_available
    /\ result.value.usage_info = S_BUSY_OPEN \o <<32, 65, 32>> \o S_BUSY_CLOSE

\* the parser in use is a ClassroomParser whose table was loaded
ParserLoaded ==
    /\ ~IsNone(parser)
    /\ Get(parser).cls = "ClassroomParser"
    /\ ~IsNone(Get(parser).df)

\* the values the naming convention gives the parts q
ConventionHolds(q, building, room_number, capacity, floor) ==
    /\ building = q.stem \o S_GWAN
    /\ room_number = Zeros(q.rz) \o StrOfNat(q.room)
    /\ capacity = q.cap
    /\ floor = q.room \div 100

\* C9: extract never raises; a field the file name does not match is null
\* (building when the name does not start with a building run), and floor is
\* 0 whenever the room number is absent.
C9_UnmatchedFieldsNullFloorZero ==
    /\ ParserLoaded =>
          /\ (~IsHangul(Basename(Get(parser).file_path)[1]) => IsNone(Get(parser).building))
          /\ (IsNone(RoomMatch(Basename(Get(parser).file_path))) => IsNone(Get(parser).room_number))
          /\ (IsNone(Get(parser).room_number) => Get(parser).floor = Some(0))
    /\ call.op = "create_summary_report" => result.ok
    /\ \A i \in 1..Len(fs) : fs[i].name = S_SUMMARY_NAME =>
          \A r \in 1..Len(fs[i].df.rows) :
              CellAt(fs[i].df, fs[i].df.rows[r], S_COL_ROOM) = PyStr(S_UNKNOWN)
                  => CellAt(fs[i].df, fs[i].df.rows[r], S_COL_FLOOR) = PyInt(0)

\* C10: for a file name of the convention, extract gives building = stem
\* and suffix, room number = the digits after it, capacity = the value of the
\* capacity digits and floor = room number div 100, and the scan derives
\* the same four values for it.
C10_ConventionRecovered ==
    \A np \in NamedParts :
        /\ (ParserLoaded /\ Basename(Get(parser).file_path) = np[1]) =>
              /\ ~IsNone(Get(parser).building) /\ ~IsNone(Get(parser).room_number)
              /\ ~IsNone(Get(parser).capacity) /\ ~IsNone(Get(parser).floor)
              /\ ConventionHolds(np[2], Get(Get(parser).building), Get(Get(parser).room_number),
                                 Get(Get(parser).capacity), Get(Get(parser).floor))
        /\ (~IsNone(available_files) /\ IsNone(converted_files)
                /\ fs[1].name = np[1] /\ np[2].ext = S_CONVERTED_XLSX) =>
              Len(Get(available_files)) = 1 /\ Get(available_files)[1].filename = np[1]
        /\ ~IsNone(available_files) =>
              \A k \in 1..Len(Get(available_files)) :
                  Get(available_files)[k].filename = np[1] =>
                      ConventionHolds(np[2], Get(available_files)[k].building,
                                      Get(available_files)[k].room_number,
                                      Get(available_files)[k].capacity,
                                      Get(available_files)[k].floor)

\* a parser and a catalog built from a name whose stem holds a "관" and
\* whose room number and capacity have leading zeros
C10_Witness ==
    /\ ParserLoaded
    /\ ~IsNone(available_files)
    /\ Len(Get(available_files)) = 1
    /\ Get(parser).capacity = Some(70)
    /\ \E np \in NamedParts :
          /\ Basename(Get(parser).file_path) = np[1]
          /\ np[2].stem = <<48376, 44288, 48324>>
          /\ np[2].rz >= 1 /\ np[2].cz >= 1 /\ np[2].sp >= 1

\* a criterion holds of an entry when it is omitted or the entry meets it
MeetsCriteria(e, building, floor, min_capacity) ==
    /\ IsNone(building) \/ e.building = Get(building)
    /\ IsNone(floor) \/ e.floor = Get(floor)
    /\ IsNone(min_capacity) \/ e.capacity >= Get(min_capacity)

\* C11: find_rooms_by_criteria returns exactly the catalog entries that
\* meet every supplied criterion, in catalog order; only an omitted criterion
\* is unconstrained, so a supplied building string, floor 0 and minimum
\* capacity 0 each constrain the result.
C11_FilterIsConjunctive ==
    Called("find_rooms_by_criteria") =>
        result.value =
            SelectSeq([i \in 1..Len(Entries) |-> i],
                      LAMBDA i : MeetsCriteria(Entries[i], call.building, call.floor,
                                               call.min_capacity))

\* C12: searches on one catalog share no state: a search changes no catalog
\* entry that an earlier search returned, so the entries and the contiguous
\* hours of an earlier result stay as they were returned.
C12_SearchKeepsEarlierResults ==
    [][(call = NoCall /\ call'.op = "search_available_rooms") =>
          \A i \in 1..Len(Get(available_files)) :
              ~IsNone(Get(available_files)[i].consecutive_hours) =>
                  Get(available_files')[i] = Get(available_files)[i]]_vars

\* the dates the rows of a table hold, ascending
DatesIn(df) ==
    LET held == {d \in {Dates[k] : k \in 1..Len(Dates)} : RowsFor(df, d) # {}}
    IN [k \in 1..Cardinality(held) |->
           CHOOSE d \in held : Cardinality({e \in held : e < d}) = k - 1]

\* C13: when get_room_status_at_time or get_full_schedule_for_date fails
\* because no row has the date, the result carries the list of the dates
\* the table holds.
C13_NoDataCarriesDates ==
    (/\ Called("get_room_status_at_time") \/ Called("get_full_schedule_for_date")
     /\ ParserUsable
     /\ IsDate(call.date)
     /\ RowsFor(Get(Get(parser).df), DateOf(call.date)) = {}) =>
        /\ result.ok
        /\ "available_dates" \in DOMAIN result.value
        /\ result.value.available_dates = DatesIn(Get(Get(parser).df))

\* the date a date cell holds: an int, or a str that int() accepts
HoldsDate(c, d) == c \in {PyInt(d), PyFloat(10 * d)} \/ (c.t = "str" /\ IntOfStr(c.s) = Some(d))

\* the dates that the date cells of a table hold, ascending and each once
ParseableDates(df) ==
    LET held == {d \in {Dates[k] : k \in 1..Len(Dates)} :
                    \E r \in 1..Len(df.rows) : HoldsDate(CellAt(df, df.rows[r], S_DATE_COLUMN), d)}
    IN [k \in 1..Cardinality(held) |->
           CHOOSE d \in held : Cardinality({e \in held : e < d}) = k - 1]

\* the parser in use, had its table no row whose date cell is missing or
\* no integer
WithoutBadDateRows(p) ==
    [p EXCEPT !.df = Some([Get(p.df) EXCEPT !.rows =
        SelectSeq(Get(p.df).rows,
                  LAMBDA row : \E d \in {Dates[k] : k \in 1..Len(Dates)} :
                                  HoldsDate(CellAt(Get(p.df), row, S_DATE_COLUMN), d))])]

\* C14: rows whose date is missing or no integer are ignored and never
\* fatal: get_available_dates returns, without raising, the ascending
\* duplicate-free list of the dates that can be parsed, and the three queries
\* answer for a valid date as they would were those rows absent.
C14_BadDateRowsIgnored ==
    ParserUsable =>
        /\ Called("get_available_dates") =>
              result.ok /\ result.value = ParseableDates(Get(Get(parser).df))
        /\ Called("get_room_status_at_time") =>
              result = GetRoomStatusAtTime(WithoutBadDateRows(Get(parser)), call.date, call.time)
        /\ Called("get_available_times_from") =>
              result = GetAvailableTimesFrom(WithoutBadDateRows(Get(parser)), call.date, call.time)
        /\ Called("get_full_schedule_for_date") =>
              result = GetFullScheduleForDate(WithoutBadDateRows(Get(parser)), call.date)

\* the slot count behind reported hours h = <<whole, tenths>>
SlotsOf(h) == 2 * h[1] + (IF h[2] = 5 THEN 1 ELSE 0)

\* the index of the first slot that starts at or after t
FirstSlotFrom(t) ==
    CHOOSE s \in 1..NumSlots :
        StrGeq(SlotTime(s), t) /\ \A j \in 1..NumSlots : StrGeq(SlotTime(j), t) => s <= j

\* C15: the contiguous free run is bounded by the first occupied slot: if
\* slot k of the sorted slot list is occupied on the date, the run a search
\* computes from a start slot s <= k is at most k - s.
C15_RunBoundedByOccupiedSlot ==
    Called("search_available_rooms") =>
        \A i \in 1..Len(Entries) :
            Returned(i) =>
                \E row \in {FirstRow(FileOf(Entries[i].file_path).df, call.date.n)} :
                    \A k \in FirstSlotFrom(call.time)..NumSlots :
                        ~IsBlankCell(CellAt(FileOf(Entries[i].file_path).df, row, SlotList[k])) =>
                            SlotsOf(Get(Entries[i].consecutive_hours)) <= k - FirstSlotFrom(call.time)

\* a path without its extension: the part before the last dot of the file
\* name, the whole path when that dot is the first character of the name
WithoutExtension(path) ==
    LET dots == {i \in 1..Len(path) : path[i] = 46}
        last == CHOOSE i \in dots : \A j \in dots : j <= i
    IN IF path[last - 1] = S_SEP[1] THEN path ELSE SubSeq(path, 1, last - 1)

\* the paths of the HTML files of the directory and, of them, of those that
\* hold a table
Discovered ==
    LET hit == SelectSeq(fs, LAMBDA f :
                   /\ f.format = "html"
                   /\ SubSeq(f.name, Len(f.name) - 3, Len(f.name)) \in {<<46, 88, 76, 83>>, <<46, 120, 108, 115>>})
    IN [k \in 1..Len(hit) |-> S_DATA \o S_SEP \o hit[k].name]
Convertible == SelectSeq(Discovered, LAMBDA path : FileOf(path).df.columns # <<>>)

\* C16: convert_all_files skips a file whose conversion fails and goes on:
\* it does not raise, every discovered HTML file is attempted once, in
\* order, the converted and failed counts add up to the number of discovered
\* files, and converted_files gains exactly the output paths of the files
\* converted in the call, each the input path with its extension replaced
\* by '_converted.xlsx'.
C16_BatchSkipsFailures ==
    [][(call = NoCall /\ call'.op = "convert_all_files") =>
          /\ result'.ok
          /\ call'.attempted = Discovered
          /\ call'.converted_count = Len(Convertible)
          /\ call'.converted_count + call'.failed_count = Len(Discovered)
          /\ Get(converted_files') =
                Get(converted_files) \o [k \in 1..Len(Convertible) |->
                    WithoutExtension(Convertible[k]) \o S_CONVERTED_XLSX]]_vars

\* a batch whose first file fails and whose two other files are converted
C16_Witness ==
    /\ Called("convert_all_files")
    /\ Len(call.attempted) = 3
    /\ FileOf(call.attempted[1]).df.columns = <<>>
    /\ call.failed_count = 1
    /\ call.converted_count = 2
    /\ Len(Get(converted_files)) >= 2

\* the catalog of the directory and what it lists
Catalog == ScanAvailableFiles(fs)
BuildingsOf(entries) == {entries[i].building : i \in 1..Len(entries)}
FloorsOf(entries, building) ==
    {entries[i].floor : i \in {j \in 1..Len(entries) : entries[j].building = building}}

\* xs lists the set S in the ascending order less
ListsAscending(xs, S, less(_, _)) ==
    /\ {xs[k] : k \in 1..Len(xs)} = S
    /\ \A k \in 1..(Len(xs) - 1) : less(xs[k], xs[k + 1])
IntLess(a, b) == a < b

\* the positions a search of the catalog returns for the call held
QualifyingRooms ==
    SearchAvailableRooms(fs, Catalog, Some(call.building), Some(call.floor), call.date,
                         call.time, call.duration_hours).rooms

\* C17: search_classrooms validates in a fixed order and returns one
\* outcome: 'error' with the sorted buildings when the building is not in the
\* catalog; else 'error' with the sorted floors of the building when the
\* floor is not among them; else 'no_rooms' when no candidate qualifies;
\* else 'success' with found_rooms = the number of listed rooms >= 1, each of
\* the requested building and floor with consecutive_hours >= duration_hours.
C17_ValidationOrder ==
    Called("search_classrooms") =>
        /\ result.ok
        /\ IF call.building \notin BuildingsOf(Catalog)
           THEN /\ result.value.status = "error"
                /\ "available_buildings" \in DOMAIN result.value
                /\ ListsAscending(result.value.available_buildings, BuildingsOf(Catalog), StrLess)
           ELSE IF call.floor \notin FloorsOf(Catalog, call.building)
           THEN /\ result.value.status = "error"
                /\ "available_floors" \in DOMAIN result.value
                /\ ListsAscending(result.value.available_floors,
                                  FloorsOf(Catalog, call.building), IntLess)
           ELSE IF QualifyingRooms = <<>>
           THEN result.value.status = "no_rooms"
           ELSE /\ result.value.status = "success"
                /\ result.value.found_rooms = Len(result.value.rooms)
                /\ result.value.found_rooms >= 1
                /\ \A k \in 1..Len(result.value.rooms) :
                      /\ result.value.rooms[k].building = call.building
                      /\ result.value.rooms[k].room_info.floor = Some(call.floor)
                      /\ result.value.rooms[k].consecutive_hours[1] >= call.duration_hours

\* an unknown building asked of a catalog that lists its two buildings in
\* descending order
C17_Witness ==
    /\ Called("search_classrooms")
    /\ call.building = B_HALL
    /\ call.floor = 0
    /\ result.ok
    /\ result.value.status = "error"
    /\ result.value.available_buildings = <<B_ENG, B_PRIME>>
    /\ Catalog[1].building = B_PRIME

\* a date argument that is a str and no integer literal
IsNoInteger(date) == date.t = "str" /\ ~IsDate(date)

\* the status the first row of the date gives the slot headed col
FirstRowStatus(df, date, col) == ExpectedStatus(CellAt(df, FirstRow(df, DateOf(date)), col))

\* C18: get_room_status_at_time checks in a fixed order and returns one
\* outcome: 'error' when the table failed to load; else 'error' when the date
\* is a str that is no integer; else 'no_data' when no row has the date, also
\* when the time is no slot; else 'invalid_time' when time + '~' is no slot;
\* else 'success'.  With several rows of the date the status is that of the
\* first one, the row get_available_times_from and
\* get_full_schedule_for_date read too.
C18_StatusCheckOrder ==
    (Queried /\ ~IsNone(parser)) =>
        IF IsNone(Get(parser).df)
        THEN Called("get_room_status_at_time") => result.ok /\ result.value.status = "error"
        ELSE IF IsNoInteger(call.date)
        THEN Called("get_room_status_at_time") => result.ok /\ result.value.status = "error"
        ELSE IF ~HasColumn(Get(Get(parser).df), S_DATE_COLUMN) THEN TRUE
        ELSE IF RowsFor(Get(Get(parser).df), DateOf(call.date)) = {}
        THEN Called("get_room_status_at_time") => result.ok /\ result.value.status = "no_data"
        ELSE /\ (Called("get_room_status_at_time")
                    /\ \A i \in 1..NumSlots : SlotList[i] # call.time \o S_TILDE) =>
                      result.ok /\ result.value.status = "invalid_time"
             /\ (Called("get_room_status_at_time")
                    /\ \E i \in 1..NumSlots : SlotList[i] = call.time \o S_TILDE) =>
                      /\ result.ok
                      /\ result.value.status = "success"
                      /\ result.value.usage_info
                            = FirstRowStatus(Get(Get(parser).df), call.date, call.time \o S_TILDE)
             /\ Called("get_available_times_from") =>
                      /\ result.ok
                      /\ \A k \in 1..Len(result.value) :
                            result.value[k][2]
                                = FirstRowStatus(Get(Get(parser).df), call.date,
                                                 result.value[k][1] \o S_TILDE)
             /\ Called("get_full_schedule_for_date") =>
                      /\ result.ok
                      /\ \A k \in 1..Len(result.value.schedule) :
                            result.value.schedule[k][2]
                                = FirstRowStatus(Get(Get(parser).df), call.date,
                                                 result.value.schedule[k][1])

\* a point query of a free slot of a date with two rows, the second of
\* which has the slot occupied
C18_Witness ==
    /\ Called("get_room_status_at_time")
    /\ ParserUsable
    /\ result.ok /\ result.value.status = "success"
    /\ result.value.is_available
    /\ Cardinality(RowsFor(Get(Get(parser).df), DateOf(call.date))) = 2

====
